---- MODULE Spec2Model ----
(***************************************************************************)
(* State-machine model of the flash-loan arbitrage agent:                  *)
(*   - the SOL-pair rate graph builder and the two-hop opportunity scanner *)
(*     (bellman-ford.js),                                                  *)
(*   - the verification pass, the transaction assembler and the execution  *)
(*     dispatcher (arbitrage.js),                                          *)
(*   - the quote rate limiter and the flash-loan instruction set           *)
(*     (utils.js),                                                         *)
(*   - the check loop (index.js).                                          *)
(*                                                                         *)
(* Amounts are in minor units (lamports).  The routing service returns an  *)
(* amount as a decimal string; the model carries such a string as          *)
(* [m, e], the digits of m followed by e zeros.  JavaScript numbers are    *)
(* IEEE 754 doubles: the model carries one as [neg, m, e] and rounds every *)
(* operation to nearest, ties to even, as the source's arithmetic does.    *)
(***************************************************************************)
EXTENDS Integers, Sequences, FiniteSets, TLC

(***************************************************************************)
(* Natural numbers of any size, as sequences of limbs below LimbBase, the  *)
(* lowest limb first and the highest limb not zero; <<>> is 0.             *)
(***************************************************************************)
\* the product of two limbs stays below 2^31
LimbBits == 31 \div 2

LimbBase == 2 ^ LimbBits

RECURSIVE BTrim(_)
BTrim(a) ==
    IF a = <<>> THEN a
    ELSE IF a[Len(a)] = 0 THEN BTrim(SubSeq(a, 1, Len(a) - 1))
    ELSE a

RECURSIVE BFromInt(_)
BFromInt(n) ==
    IF n = 0 THEN <<>> ELSE <<n % LimbBase>> \o BFromInt(n \div LimbBase)

RECURSIVE BToInt(_)
BToInt(a) == IF a = <<>> THEN 0 ELSE a[1] + LimbBase * BToInt(Tail(a))

RECURSIVE BAddCarry(_, _, _)
BAddCarry(a, b, carry) ==
    IF a = <<>> /\ b = <<>> THEN (IF carry = 0 THEN <<>> ELSE <<carry>>)
    ELSE LET x == IF a = <<>> THEN 0 ELSE a[1]
             y == IF b = <<>> THEN 0 ELSE b[1]
             s == x + y + carry
         IN  <<s % LimbBase>>
                \o BAddCarry(IF a = <<>> THEN a ELSE Tail(a),
                             IF b = <<>> THEN b ELSE Tail(b), s \div LimbBase)

BAdd(a, b) == BAddCarry(a, b, 0)

\* a - b for a >= b
RECURSIVE BSubBorrow(_, _, _)
BSubBorrow(a, b, borrow) ==
    IF a = <<>> THEN <<>>
    ELSE LET y == IF b = <<>> THEN 0 ELSE b[1]
             s == a[1] - y - borrow
         IN  <<IF s < 0 THEN s + LimbBase ELSE s>>
                \o BSubBorrow(Tail(a), IF b = <<>> THEN b ELSE Tail(b),
                              IF s < 0 THEN 1 ELSE 0)

BSub(a, b) == BTrim(BSubBorrow(a, b, 0))

\* -1, 0 or 1 as a is below, equal to or above b
RECURSIVE BCmpFrom(_, _, _)
BCmpFrom(a, b, i) ==
    IF i = 0 THEN 0
    ELSE IF a[i] < b[i] THEN -1
    ELSE IF a[i] > b[i] THEN 1
    ELSE BCmpFrom(a, b, i - 1)

BCmp(a, b) ==
    IF Len(a) < Len(b) THEN -1
    ELSE IF Len(a) > Len(b) THEN 1
    ELSE BCmpFrom(a, b, Len(a))

\* a * k + carry for k and carry below LimbBase
RECURSIVE BMulSmall(_, _, _)
BMulSmall(a, k, carry) ==
    IF a = <<>> THEN (IF carry = 0 THEN <<>> ELSE <<carry>>)
    ELSE LET p == a[1] * k + carry
         IN  <<p % LimbBase>> \o BMulSmall(Tail(a), k, p \div LimbBase)

RECURSIVE BMul(_, _)
BMul(a, b) ==
    IF a = <<>> \/ b = <<>> THEN <<>>
    ELSE LET rest == BMul(a, Tail(b))
         IN  BTrim(BAdd(BMulSmall(a, b[1], 0),
                        IF rest = <<>> THEN rest ELSE <<0>> \o rest))

\* a * 2^k
BShl(a, k) ==
    IF a = <<>> THEN a
    ELSE [i \in 1 .. k \div LimbBits |-> 0]
            \o BMulSmall(a, 2 ^ (k % LimbBits), 0)

\* the limbs of floor(a / k) for 0 < k <= LimbBase, from limb i down, rem
\* being what the limbs above i left over
RECURSIVE BDivSmallFrom(_, _, _, _)
BDivSmallFrom(a, k, i, rem) ==
    IF i = 0 THEN <<>>
    ELSE Append(BDivSmallFrom(a, k, i - 1, (rem * LimbBase + a[i]) % k),
                (rem * LimbBase + a[i]) \div k)

BDivSmall(a, k) == BTrim(BDivSmallFrom(a, k, Len(a), 0))

\* floor(a / 2^k)
BShr(a, k) ==
    IF k \div LimbBits >= Len(a) THEN <<>>
    ELSE BDivSmall(SubSeq(a, k \div LimbBits + 1, Len(a)),
                   2 ^ (k % LimbBits))

RECURSIVE BitLenSmall(_)
BitLenSmall(x) == IF x = 0 THEN 0 ELSE 1 + BitLenSmall(x \div 2)

BBitLen(a) ==
    IF a = <<>> THEN 0 ELSE LimbBits * (Len(a) - 1) + BitLenSmall(a[Len(a)])

\* bit i of a, the lowest bit being bit 0
BBit(a, i) ==
    IF i \div LimbBits >= Len(a) THEN 0
    ELSE (a[i \div LimbBits + 1] \div (2 ^ (i % LimbBits))) % 2

\* the k lowest bits of a are all zero
BLowBitsZero(a, k) ==
    /\ \A i \in 1 .. k \div LimbBits : i <= Len(a) => a[i] = 0
    /\ k \div LimbBits < Len(a) =>
          a[k \div LimbBits + 1] % (2 ^ (k % LimbBits)) = 0

\* the number of zero bits below the lowest bit that is set, for a # 0
RECURSIVE TrailingZerosSmall(_)
TrailingZerosSmall(x) ==
    IF x % 2 = 1 THEN 0 ELSE 1 + TrailingZerosSmall(x \div 2)

RECURSIVE BTrailingZeros(_)
BTrailingZeros(a) ==
    IF a[1] = 0 THEN LimbBits + BTrailingZeros(Tail(a))
    ELSE TrailingZerosSmall(a[1])

\* the largest t in lo .. hi with d * t <= r, where d * lo <= r
RECURSIVE BDigit(_, _, _, _)
BDigit(r, d, lo, hi) ==
    IF lo = hi THEN lo
    ELSE IF BCmp(BMulSmall(d, (lo + hi + 1) \div 2, 0), r) <= 0
    THEN BDigit(r, d, (lo + hi + 1) \div 2, hi)
    ELSE BDigit(r, d, lo, (lo + hi + 1) \div 2 - 1)

\* long division of n by d # 0, one limb of n after the other from limb i
\* down, q and rem being the quotient and the remainder of the limbs above:
\* twice the quotient, plus one when the division leaves a remainder (the
\* bit that tells an inexact quotient from an exact one when it is rounded)
RECURSIVE BDivStickyFrom(_, _, _, _, _)
RECURSIVE BDivStickyLimb(_, _, _, _, _)
RECURSIVE BDivStickyDigit(_, _, _, _, _, _)
BDivStickyFrom(n, d, i, q, rem) ==
    IF i = 0 THEN BMulSmall(BTrim(q), 2, IF rem = <<>> THEN 0 ELSE 1)
    ELSE BDivStickyLimb(n, d, i, q, BTrim(<<n[i]>> \o rem))

BDivStickyLimb(n, d, i, q, cur) ==
    BDivStickyDigit(n, d, i, q, cur, BDigit(cur, d, 0, LimbBase - 1))

BDivStickyDigit(n, d, i, q, cur, t) ==
    BDivStickyFrom(n, d, i - 1, <<t>> \o q,
                   IF t = 0 THEN cur ELSE BSub(cur, BMulSmall(d, t, 0)))

BDivSticky(n, d) == BDivStickyFrom(n, d, Len(n), <<>>, <<>>)

(***************************************************************************)
(* JavaScript numbers (IEEE 754 doubles) in the normal range: the value    *)
(* (-1)^neg * m * 2^e with m odd and below 2^53, or zero.  Every operation *)
(* is the exact one followed by rounding to nearest, ties to even.         *)
(***************************************************************************)
\* 52 stored bits and the leading one
MantissaBits == 52 + 1

DZero == [neg |-> FALSE, m |-> <<>>, e |-> 0]

\* (-1)^neg * m * 2^(e + tz) with the tz trailing zero bits of m taken off
DShifted(neg, m, e, tz) == [neg |-> neg, m |-> BShr(m, tz), e |-> e + tz]

DCanon(neg, m, e) ==
    IF m = <<>> THEN DZero ELSE DShifted(neg, m, e, BTrailingZeros(m))

\* q = floor(m / 2^k) rounded by the k bits of m it leaves out: up when they
\* are above one half, or one half and q is odd
RoundOff(m, k, q) ==
    IF /\ BBit(m, k - 1) = 1
       /\ (~BLowBitsZero(m, k - 1) \/ BBit(q, 0) = 1)
    THEN BAdd(q, <<1>>)
    ELSE q

\* (-1)^neg * m * 2^e with the k lowest bits of m rounded off
RoundBits(neg, m, e, k) ==
    DCanon(neg, IF k <= 0 THEN m ELSE RoundOff(m, k, BShr(m, k)),
           IF k <= 0 THEN e ELSE e + k)

\* (-1)^neg * m * 2^e rounded to a double
Round53(neg, m, e) == RoundBits(neg, m, e, BBitLen(m) - MantissaBits)

\* an integer of the model as a number
DInt(n) == DCanon(n < 0, BFromInt(IF n < 0 THEN -n ELSE n), 0)

DNeg(a) == IF a.m = <<>> THEN a ELSE [a EXCEPT !.neg = ~a.neg]

DMul(a, b) == Round53(a.neg # b.neg, BMul(a.m, b.m), a.e + b.e)

\* a / b with a scaled by 2^k, which leaves the quotient 55 or 56 bits
DDivScaled(a, b, k) ==
    Round53(a.neg # b.neg, BDivSticky(BShl(a.m, k), b.m), a.e - b.e - k - 1)

\* a / b for b # 0
DDiv(a, b) ==
    IF a.m = <<>> THEN DZero
    ELSE DDivScaled(a, b, 55 + BBitLen(b.m) - BBitLen(a.m))

\* (-1)^aneg * x * 2^e + (-1)^bneg * y * 2^e
DAddAligned(aneg, x, bneg, y, e) ==
    Round53(IF aneg = bneg \/ BCmp(x, y) >= 0 THEN aneg ELSE bneg,
            IF aneg = bneg THEN BAdd(x, y)
            ELSE IF BCmp(x, y) >= 0 THEN BSub(x, y)
            ELSE BSub(y, x),
            e)

DAddAt(a, b, e) ==
    DAddAligned(a.neg, BShl(a.m, a.e - e), b.neg, BShl(b.m, b.e - e), e)

DAdd(a, b) == DAddAt(a, b, IF a.e < b.e THEN a.e ELSE b.e)

DSub(a, b) == DAdd(a, DNeg(b))

\* -1, 0 or 1 as x * 2^e is below, equal to or above y * 2^e, signs apart
DCmpAt(a, b, e) == BCmp(BShl(a.m, a.e - e), BShl(b.m, b.e - e))

\* -1, 0 or 1 as a is below, equal to or above b
DCmp(a, b) ==
    IF a.neg /\ ~b.neg THEN -1
    ELSE IF ~a.neg /\ b.neg THEN 1
    ELSE (IF a.neg THEN -1 ELSE 1)
            * DCmpAt(a, b, IF a.e < b.e THEN a.e ELSE b.e)

DGE(a, b) == DCmp(a, b) >= 0

DGT(a, b) == DCmp(a, b) > 0

\* Math.floor and Math.ceil, as integers of the model
DFloor(a) ==
    IF a.e >= 0 THEN (IF a.neg THEN -1 ELSE 1) * BToInt(BShl(a.m, a.e))
    ELSE (IF a.neg THEN -1 ELSE 0)
            + (IF a.neg THEN -1 ELSE 1) * BToInt(BShr(a.m, -a.e))

DCeil(a) == -DFloor(DNeg(a))

\* the number nearest to n / d: the value of a decimal literal, and of the
\* division of two integers
DRatio(n, d) == DDiv(DInt(n), DInt(d))

RECURSIVE Pow10(_)
Pow10(k) == IF k = 0 THEN 1 ELSE 10 * Pow10(k - 1)

Max(a, b) == IF a >= b THEN a ELSE b

(***************************************************************************)
(* Decimal strings: the amount fields of quotes and of the configuration.  *)
(***************************************************************************)
Dec(m, e) == [m |-> m, e |-> e]

\* parseInt(s)
ParseInt(s) == s.m * Pow10(s.e)

RECURSIVE BTimesPow10(_, _)
BTimesPow10(a, k) == IF k = 0 THEN a ELSE BTimesPow10(BMulSmall(a, 10, 0), k - 1)

\* parseFloat(s) for the digits of a natural number
ParseFloat(s) == Round53(FALSE, BTimesPow10(BFromInt(s.m), s.e), 0)

\* parseFloat(s) / Math.pow(10, decimals)
DecValue(s, decimals) == DDiv(ParseFloat(s), DInt(Pow10(decimals)))

(***************************************************************************)
(* Configuration (config.js).                                              *)
(***************************************************************************)
\* config.TOKENS: index 0 is the base asset (SOL); decimals per token
TokenDecimals == <<9, 6, 6, 5>>

NumTokens == Len(TokenDecimals)

solTokenIndex == 0

Decimals(tokenIndex) == TokenDecimals[tokenIndex + 1]

NonBaseTokens == 1 .. (NumTokens - 1)

\* config.STANDARD_AMOUNT = "1000000000": the probe notional of every graph quote
STANDARD_AMOUNT == Dec(1, 9)

\* config.KAMINO_FLASHLOAN_AMOUNT = "1000000000": the loan notional
KAMINO_FLASHLOAN_AMOUNT == Dec(1, 9)

\* config.KAMINO_FLASH_LOAN_FEE_PERCENTAGE = 0.0005
KAMINO_FLASH_LOAN_FEE_PERCENTAGE == DRatio(5, 10000)

\* config.JITO_MIN_TIP, lamports
JITO_MIN_TIP == 5000

\* config.JITO_TIP_PERCENTAGE = 0.07
JITO_TIP_PERCENTAGE == DRatio(7, 100)

\* config.MIN_PROFIT_PERCENTAGE = 0.1, the shipped value, in percent
MIN_PROFIT_PERCENTAGE == DRatio(1, 10)

\* a threshold of 0.3 percent
HIGH_PROFIT_PERCENTAGE == DRatio(3, 10)

\* the values of config.MIN_PROFIT_PERCENTAGE the model is checked for, in
\* percent: 0.1, 0.2 and 0.3
ThresholdChoices == { MIN_PROFIT_PERCENTAGE, DRatio(1, 5), HIGH_PROFIT_PERCENTAGE }

ConfigChoices ==
    [MIN_PROFIT_PERCENTAGE : ThresholdChoices, JITO_MODE : BOOLEAN,
     USE_BELLMAN_FORD : BOOLEAN]

(***************************************************************************)
(* The answers of the routing service the model enumerates.                *)
(***************************************************************************)
\* outcomes of a base -> token probe quote: failed, or a token amount
ProbeOutChoices == { <<>>, <<Dec(1, 6)>>, <<Dec(10011, 2)>> }

\* outcomes of a token -> base probe quote: failed, or a base amount
ProbeBackChoices == { <<>>, <<Dec(999, 9)>>, <<Dec(1002, 9)>>, <<Dec(1003, 9)>> }

\* outcomes of the verifier's first-hop quote (a token amount)
VerifyHop1Choices == { <<>>, <<Dec(1, 6)>> }

\* outcomes of the verifier's second-hop quote (the final base amount)
VerifyHop2Choices ==
    { <<>>, <<Dec(999, 6)>>, <<Dec(1000999999, 0)>>, <<Dec(1001, 6)>>,
      <<Dec(1002, 6)>>, <<Dec(1003, 6)>> }

(***************************************************************************)
(* Values computed once for the amounts the model enumerates: a table is a *)
(* set of [key, value], and Cached reads it.                               *)
(***************************************************************************)
\* the value of the table at key, and value itself for any other key
Cached(table, key, value) ==
    IF \E r \in table : r.key = key
    THEN (CHOOSE r \in table : r.key = key).value
    ELSE value

VARIABLES
    cfg,            \* the configuration the process runs with
    probe,          \* outcome of the graph builder's quotes: slot -> <<>> (failed) or <<outAmount>>
    graph,          \* the edge list built by buildExchangeRateGraph
    scanOut,        \* the value returned by findArbitrageOpportunities
    vquote,         \* outcome of the verifier's quotes: <<candidate, hop>> -> <<>> or <<outAmount>>
    verOut,         \* the list returned by verifyOpportunities
    phase,          \* position of the detection pipeline
    clock,          \* Date.now(), milliseconds
    lastRequestTime,      \* utils.js module state
    requestCounter,       \* utils.js module state
    requestWindowStart,   \* utils.js module state
    caller,         \* per caller of enforceRequestRateLimit: position and locals
    concurrency,    \* how many callers may be inside enforceRequestRateLimit at once
    pausesLeft,     \* how many more times a caller may stay away before calling
    lateLeft,       \* how many more minimum-interval sleeps may end off time
    released,       \* number of calls released so far
    horizon,        \* how far back the release instants are remembered, ms
    recent,         \* release instants of the last horizon milliseconds, oldest first
    passed,         \* calls released since requestWindowStart was last assigned
    lastCall,       \* <<>> or <<record of the call released last>>
    wallet,         \* the wallet's balance, lamports
    pc,             \* position of the check loop
    checks,         \* number of checks started
    trace,          \* what the current check has done so far, in order
    lastIntegrity,  \* <<record of the ensureSystemIntegrity invocation that just returned>>, else <<>>
    tx,             \* <<>> or <<the arbitrage transaction assembled last>>
    swapTx,         \* <<the getSwapTransaction attempt just made>>, else <<>>
    cycleResult,    \* <<>> or <<value the latest check resolved with>>
    proc,           \* the process: "boot", "running", or why it exited
    timer,          \* delays of the pending setTimeout(runCheck, ...) timers, ms
    inFlight,       \* checks whose promise has been created and not yet handled
    endedBy,        \* <<>> or <<how the check settled last came to its end>>
    log,            \* what executeSimpleArbitrage has requested and built in this check, in order
    trades,         \* the records saveTrade and logFailedTrade have written in this check, in order
    call            \* <<>> or <<the library call made on its own: its arguments, progress and result>>

detectVars == <<probe, graph, scanOut, vquote, verOut, phase>>

limiterVars ==
    <<clock, lastRequestTime, requestCounter, requestWindowStart, caller,
      concurrency, pausesLeft, lateLeft, released, horizon, recent, passed,
      lastCall>>

cycleVars ==
    <<wallet, pc, checks, trace, lastIntegrity, tx, swapTx, cycleResult,
      proc, timer, inFlight, endedBy, log, trades>>

vars == <<cfg, detectVars, limiterVars, cycleVars, call>>

\* the check loop before its first check
CycleQuiet ==
    /\ wallet = 0
    /\ pc = "idle"
    /\ checks = 0
    /\ trace = <<>>
    /\ lastIntegrity = <<>>
    /\ tx = <<>>
    /\ swapTx = <<>>
    /\ cycleResult = <<>>
    /\ proc = "boot"
    /\ timer = <<>>
    /\ inFlight = 0
    /\ endedBy = <<>>
    /\ log = <<>>
    /\ trades = <<>>

\* REQUEST_LIMIT, REQUEST_WINDOW (ms): module constants of utils.js
REQUEST_LIMIT == 60

REQUEST_WINDOW == 60000

\* config.MIN_REQUEST_INTERVAL, ms
MIN_REQUEST_INTERVAL == 1000

\* the floor of the window wait, ms: Math.max(timeUntilWindowReset, 1000)
MIN_WINDOW_WAIT == 1000

\* the instant the module is loaded, ms (requestWindowStart = Date.now())
LoadTime == 100000

NumCallers == 2

Callers == 1 .. NumCallers

IdleCaller ==
    [pc |-> "idle", now |-> 0, wake |-> 0, checkedAt |-> 0, remaining |-> 0,
     limitSeen |-> FALSE]

\* the limiter before any call: the module-level initialisers of utils.js
LimiterLoaded ==
    /\ clock = LoadTime
    /\ lastRequestTime = 0
    /\ requestCounter = 0
    /\ requestWindowStart = LoadTime
    /\ caller = [c \in Callers |-> IdleCaller]
    /\ released = 0
    /\ recent = <<>>
    /\ passed = 0
    /\ lastCall = <<>>

\* the limiter left alone
LimiterQuiet ==
    LimiterLoaded /\ concurrency = 0 /\ pausesLeft = 0 /\ lateLeft = 0 /\ horizon = 0

(***************************************************************************)
(* RateGraphBuilder (bellman-ford.js, buildExchangeRateGraph).             *)
(***************************************************************************)
\* outputValue / inputValue, each the amount over 10^decimals
QuoteRate(inDecimals, outDecimals, inAmount, outAmount) ==
    DDiv(DecValue(outAmount, outDecimals), DecValue(inAmount, inDecimals))

\* the rates of the probe quotes the model enumerates
KnownOutRates ==
    { [key |-> <<Decimals(solTokenIndex), Decimals(t), STANDARD_AMOUNT, o[1]>>,
       value |-> QuoteRate(Decimals(solTokenIndex), Decimals(t), STANDARD_AMOUNT, o[1])] :
        t \in NonBaseTokens, o \in ProbeOutChoices \ { <<>> } }

KnownBackRates ==
    { [key |-> <<Decimals(t), Decimals(solTokenIndex), STANDARD_AMOUNT, b[1]>>,
       value |-> QuoteRate(Decimals(t), Decimals(solTokenIndex), STANDARD_AMOUNT, b[1])] :
        t \in NonBaseTokens, b \in ProbeBackChoices \ { <<>> } }

KnownQuoteRates == KnownOutRates \cup KnownBackRates

\* rate = (outAmount / 10^toDecimals) / (inAmount / 10^fromDecimals)
EdgeRate(from, to, inAmount, outAmount) ==
    Cached(KnownQuoteRates,
           <<Decimals(from), Decimals(to), inAmount, outAmount>>,
           QuoteRate(Decimals(from), Decimals(to), inAmount, outAmount))

Edge(from, to, inAmount, outAmount) ==
    [from |-> from, to |-> to, rate |-> EdgeRate(from, to, inAmount, outAmount),
     outAmount |-> outAmount, inAmount |-> inAmount]

\* the two quote slots of a token: "out" is base -> token, "back" is token -> base
Slots == NonBaseTokens \X {"out", "back"}

\* a builder that leaves out both edges of a token when one of its quotes failed
TokenEdgesOfCompletePairs(q, tokenIndex) ==
    IF q[<<tokenIndex, "out">>] # <<>> /\ q[<<tokenIndex, "back">>] # <<>>
    THEN << Edge(solTokenIndex, tokenIndex, STANDARD_AMOUNT, q[<<tokenIndex, "out">>][1]),
            Edge(tokenIndex, solTokenIndex, STANDARD_AMOUNT, q[<<tokenIndex, "back">>][1]) >>
    ELSE <<>>

\* the edges one token contributes, base -> token first; a failed quote adds none
TokenEdges(q, tokenIndex) ==
    (IF q[<<tokenIndex, "out">>] # <<>>
        THEN <<Edge(solTokenIndex, tokenIndex, STANDARD_AMOUNT, q[<<tokenIndex, "out">>][1])>>
        ELSE <<>>)
    \o
    (IF q[<<tokenIndex, "back">>] # <<>>
        THEN <<Edge(tokenIndex, solTokenIndex, STANDARD_AMOUNT, q[<<tokenIndex, "back">>][1])>>
        ELSE <<>>)

RECURSIVE GraphUpTo(_, _)
GraphUpTo(q, tokenIndex) ==
    IF tokenIndex = 0 THEN <<>>
    ELSE GraphUpTo(q, tokenIndex - 1) \o TokenEdges(q, tokenIndex)

buildExchangeRateGraph(q) == GraphUpTo(q, NumTokens - 1)

(***************************************************************************)
(* OpportunityScanner (bellman-ford.js, findArbitrageOpportunities).       *)
(***************************************************************************)
\* Array.prototype.find: the first edge of g from `from` to `to`; <<>> if none
RECURSIVE FindEdgeFrom(_, _, _, _)
FindEdgeFrom(g, from, to, i) ==
    IF i > Len(g) THEN <<>>
    ELSE IF g[i].from = from /\ g[i].to = to THEN <<g[i]>>
    ELSE FindEdgeFrom(g, from, to, i + 1)

FindEdge(g, from, to) == FindEdgeFrom(g, from, to, 1)

\* a round trip that divides the two rates
RoundTripRateQuotient(solToTokenEdge, tokenToSolEdge) ==
    DDiv(solToTokenEdge.rate, tokenToSolEdge.rate)

\* the products of the known rates
KnownProducts ==
    { [key |-> <<a.value, b.value>>, value |-> DMul(a.value, b.value)] :
        a \in KnownOutRates, b \in KnownBackRates }

\* a * b
Times(a, b) == Cached(KnownProducts, <<a, b>>, DMul(a, b))

\* roundTripRate = solToTokenEdge.rate * tokenToSolEdge.rate
RoundTripRate(solToTokenEdge, tokenToSolEdge) ==
    Times(solToTokenEdge.rate, tokenToSolEdge.rate)

\* (rate - 1) * 100
PercentAboveOne(rate) == DMul(DSub(rate, DInt(1)), DInt(100))

KnownPercentages ==
    { [key |-> p.value, value |-> PercentAboveOne(p.value)] : p \in KnownProducts }

\* profitPercentage = (roundTripRate - 1) * 100
ProfitPercentage(roundTripRate) ==
    Cached(KnownPercentages, roundTripRate, PercentAboveOne(roundTripRate))

\* a scanner that keeps every round trip that does not lose
ScanAcceptsAnyGain(profitPercentage) == DGE(profitPercentage, DZero)

\* the threshold test of the scanner
ScanAccepts(profitPercentage) == DGE(profitPercentage, cfg.MIN_PROFIT_PERCENTAGE)

\* the Opportunities of one token: none if an edge is missing or the profit is
\* below the configured threshold
TokenOpportunity(g, tokenIndex) ==
    LET e1 == FindEdge(g, solTokenIndex, tokenIndex)
        e2 == FindEdge(g, tokenIndex, solTokenIndex)
    IN  IF e1 = <<>> \/ e2 = <<>> THEN <<>>
        ELSE LET roundTripRate == RoundTripRate(e1[1], e2[1])
                 profitPercentage == ProfitPercentage(roundTripRate)
             IN  IF ScanAccepts(profitPercentage)
                 THEN << [cycle |-> <<solTokenIndex, tokenIndex, solTokenIndex>>,
                          edges |-> <<e1[1], e2[1]>>,
                          profitPercentage |-> profitPercentage,
                          roundTripRate |-> roundTripRate] >>
                 ELSE <<>>

RECURSIVE OpportunitiesUpTo(_, _)
OpportunitiesUpTo(g, tokenIndex) ==
    IF tokenIndex = 0 THEN <<>>
    ELSE OpportunitiesUpTo(g, tokenIndex - 1) \o TokenOpportunity(g, tokenIndex)

\* an insertion that puts an entry before the entries it ties with
RECURSIVE InsertBeforeTies(_, _)
InsertBeforeTies(sorted, x) ==
    IF sorted = <<>> THEN <<x>>
    ELSE IF DGE(x.profitPercentage, Head(sorted).profitPercentage)
         THEN <<x>> \o sorted
         ELSE <<Head(sorted)>> \o InsertBeforeTies(Tail(sorted), x)

\* Array.prototype.sort((a, b) => b.profitPercentage - a.profitPercentage):
\* a stable sort, descending by profit percentage; the difference of two
\* numbers is above zero exactly when the first is the larger
RECURSIVE InsertDesc(_, _)
InsertDesc(sorted, x) ==
    IF sorted = <<>> THEN <<x>>
    ELSE IF DGT(x.profitPercentage, Head(sorted).profitPercentage)
         THEN <<x>> \o sorted
         ELSE <<Head(sorted)>> \o InsertDesc(Tail(sorted), x)

RECURSIVE SortDesc(_)
SortDesc(s) ==
    IF s = <<>> THEN <<>>
    ELSE InsertDesc(SortDesc(SubSeq(s, 1, Len(s) - 1)), s[Len(s)])

\* the returned value: isNull stands for `null`
NullResult == [isNull |-> TRUE, list |-> <<>>]

findArbitrageOpportunities(g) ==
    IF Len(g) = 0 THEN NullResult
    ELSE LET arbitrageOpportunities == SortDesc(OpportunitiesUpTo(g, NumTokens - 1))
         IN  IF Len(arbitrageOpportunities) > 0
             THEN [isNull |-> FALSE, list |-> arbitrageOpportunities]
             ELSE NullResult


(***************************************************************************)
(* OpportunityVerifier (arbitrage.js, verifyOpportunities).                *)
(***************************************************************************)
\* opportunities.slice(0, 3)
VERIFY_TOP_K == 3

\* the literal the verifier compares the gross profit percentage with
VERIFY_MIN_PROFIT == DRatio(1, 10)

Min(a, b) == IF a <= b THEN a ELSE b

\* the hop loop of candidate k from hop i on: each hop is quoted at
\* currentAmount, and a failed quote ends the loop with isValid = false
RECURSIVE VerifyHops(_, _, _, _, _, _, _)
VerifyHops(opportunity, vq, k, i, currentAmount, verifiedEdges, verifiedAmounts) ==
    IF i > Len(opportunity.edges)
    THEN [isValid |-> TRUE, verifiedEdges |-> verifiedEdges,
          verifiedAmounts |-> verifiedAmounts]
    ELSE LET quote == vq[<<k, i>>]
         IN  IF quote = <<>>
             THEN [isValid |-> FALSE, verifiedEdges |-> verifiedEdges,
                   verifiedAmounts |-> verifiedAmounts]
             ELSE VerifyHops(opportunity, vq, k, i + 1, quote[1],
                     Append(verifiedEdges,
                            [from |-> opportunity.edges[i].from,
                             to |-> opportunity.edges[i].to,
                             rate |-> opportunity.edges[i].rate,
                             inAmount |-> currentAmount,
                             outAmount |-> quote[1]]),
                     Append(verifiedAmounts, quote[1]))

GrossProfit(finalAmount, initialAmount) == finalAmount - initialAmount

\* a gross profit left as a fraction of the notional
GrossProfitFraction(profit, initialAmount) == DRatio(profit, initialAmount)

\* the gross profits of the final amounts the model enumerates
KnownProfits ==
    { GrossProfit(ParseInt(final[1]), ParseInt(KAMINO_FLASHLOAN_AMOUNT)) :
        final \in VerifyHop2Choices \ { <<>> } }

\* (profit / initialAmount) * 100
PercentOf(profit, initialAmount) == DMul(DRatio(profit, initialAmount), DInt(100))

KnownProfitPercentages ==
    { [key |-> <<profit, ParseInt(KAMINO_FLASHLOAN_AMOUNT)>>,
       value |-> PercentOf(profit, ParseInt(KAMINO_FLASHLOAN_AMOUNT))] :
        profit \in KnownProfits }

\* profitPercentage = (profit / initialAmount) * 100
GrossProfitPercentage(profit, initialAmount) ==
    Cached(KnownProfitPercentages, <<profit, initialAmount>>,
           PercentOf(profit, initialAmount))

\* Math.ceil(amount * rate)
CeilOfShare(amount, rate) == DCeil(DMul(DInt(amount), rate))

\* Math.floor(amount * rate)
FloorOfShare(amount, rate) == DFloor(DMul(DInt(amount), rate))

KnownFees ==
    { [key |-> ParseInt(KAMINO_FLASHLOAN_AMOUNT),
       value |-> CeilOfShare(ParseInt(KAMINO_FLASHLOAN_AMOUNT),
                             KAMINO_FLASH_LOAN_FEE_PERCENTAGE)] }

KnownTips ==
    { [key |-> profit, value |-> FloorOfShare(profit, JITO_TIP_PERCENTAGE)] :
        profit \in KnownProfits }

\* Math.ceil(initialAmount * config.KAMINO_FLASH_LOAN_FEE_PERCENTAGE)
FlashLoanFee(initialAmount) ==
    Cached(KnownFees, initialAmount,
           CeilOfShare(initialAmount, KAMINO_FLASH_LOAN_FEE_PERCENTAGE))

\* Math.floor(profit * config.JITO_TIP_PERCENTAGE)
TipShare(profit) ==
    Cached(KnownTips, profit, FloorOfShare(profit, JITO_TIP_PERCENTAGE))

\* a tip estimate that does not look at the mode
EstimatedTipInEveryMode(profit) == Max(JITO_MIN_TIP, TipShare(profit))

EstimatedTip(profit) ==
    IF cfg.JITO_MODE THEN Max(JITO_MIN_TIP, TipShare(profit)) ELSE 0

\* a verifier that keeps every candidate both hops of which were quoted
VerifyAcceptsEveryAnswer(profitPercentage) == TRUE

\* the profitability test of the verifier
VerifyAccepts(profitPercentage) == DGE(profitPercentage, VERIFY_MIN_PROFIT)

\* the VerifiedOpportunity of candidate k: none if its cycle does not start
\* and end at the base asset, a quote failed or the gross profit is too low
VerifyCandidate(opportunity, vq, k) ==
    IF opportunity.cycle[1] # solTokenIndex
       \/ opportunity.cycle[Len(opportunity.cycle)] # solTokenIndex
    THEN <<>>
    ELSE LET hops == VerifyHops(opportunity, vq, k, 1, KAMINO_FLASHLOAN_AMOUNT,
                                <<>>, <<KAMINO_FLASHLOAN_AMOUNT>>)
         IN  IF ~hops.isValid THEN <<>>
             ELSE LET initialAmount == ParseInt(KAMINO_FLASHLOAN_AMOUNT)
                      finalAmount ==
                          ParseInt(hops.verifiedAmounts[Len(hops.verifiedAmounts)])
                      profit == GrossProfit(finalAmount, initialAmount)
                      profitPercentage == GrossProfitPercentage(profit, initialAmount)
                      flashLoanFee == FlashLoanFee(initialAmount)
                      estimatedTip == EstimatedTip(profit)
                      netProfit == profit - flashLoanFee - estimatedTip
                  IN  IF VerifyAccepts(profitPercentage)
                      THEN << [cycle |-> opportunity.cycle,
                               edges |-> opportunity.edges,
                               roundTripRate |-> opportunity.roundTripRate,
                               verifiedEdges |-> hops.verifiedEdges,
                               verifiedAmounts |-> hops.verifiedAmounts,
                               verifiedProfit |-> profit,
                               profitPercentage |-> profitPercentage,
                               flashLoanFee |-> flashLoanFee,
                               estimatedTip |-> estimatedTip,
                               netProfit |-> netProfit] >>
                      ELSE <<>>

\* a candidate loop that gives up at the first candidate whose first quote
\* failed
RECURSIVE VerifiedUntilFailure(_, _, _)
VerifiedUntilFailure(opportunities, vq, k) ==
    IF k = 0 THEN <<>>
    ELSE IF \E i \in 1 .. k - 1 : vq[<<i, 1>>] = <<>>
         THEN VerifiedUntilFailure(opportunities, vq, k - 1)
         ELSE VerifiedUntilFailure(opportunities, vq, k - 1)
              \o VerifyCandidate(opportunities[k], vq, k)

RECURSIVE VerifiedUpTo(_, _, _)
VerifiedUpTo(opportunities, vq, k) ==
    IF k = 0 THEN <<>>
    ELSE VerifiedUpTo(opportunities, vq, k - 1)
         \o VerifyCandidate(opportunities[k], vq, k)

\* the candidates are the first VERIFY_TOP_K opportunities; the survivors
\* are returned sorted by verified gross profit percentage
\* a verifier that takes every opportunity as a candidate
EveryOpportunity(opportunities) == opportunities

\* opportunities.slice(0, 3)
TopOpps(opportunities) ==
    SubSeq(opportunities, 1, Min(VERIFY_TOP_K, Len(opportunities)))

verifyOpportunities(opportunities, vq) ==
    LET topOpps == TopOpps(opportunities)
    IN  SortDesc(VerifiedUpTo(topOpps, vq, Len(topOpps)))

\* the quote requests made for candidate k, as <<candidate, hop>>: the hops
\* up to and including the first whose quote failed
CandidateRequests(opportunity, vq, k) ==
    IF opportunity.cycle[1] # solTokenIndex
       \/ opportunity.cycle[Len(opportunity.cycle)] # solTokenIndex
    THEN <<>>
    ELSE LET hops == VerifyHops(opportunity, vq, k, 1, KAMINO_FLASHLOAN_AMOUNT,
                                <<>>, <<KAMINO_FLASHLOAN_AMOUNT>>)
             asked == IF hops.isValid THEN Len(opportunity.edges)
                      ELSE Len(hops.verifiedEdges) + 1
         IN  [i \in 1 .. asked |-> <<k, i>>]

\* the quote requests of one verifyOpportunities, in the order they are made
RECURSIVE RequestsUpTo(_, _, _)
RequestsUpTo(opportunities, vq, k) ==
    IF k = 0 THEN <<>>
    ELSE RequestsUpTo(opportunities, vq, k - 1)
         \o CandidateRequests(opportunities[k], vq, k)

(***************************************************************************)
(* Specification SpecDetect: graph builder, scanner and verifier applied   *)
(* in sequence to every outcome of the probe and verification quotes.      *)
(***************************************************************************)
VerifySlots == (1 .. VERIFY_TOP_K) \X (1 .. 2)

NoVerifyQuotes == [s \in VerifySlots |-> <<>>]

\* the quotes one candidate can receive: the second hop is quoted only if
\* the first hop was
CandidateQuoteChoices ==
    { <<h1, h2>> : h1 \in VerifyHop1Choices \ {<<>>}, h2 \in VerifyHop2Choices }
    \cup { << <<>>, <<>> >> }

\* the quotes the verifier can receive for n candidates
VerifyQuoteChoices(n) ==
    { [s \in VerifySlots |-> IF s[1] > n THEN <<>> ELSE f[s[1]][s[2]]] :
        f \in [1 .. Min(VERIFY_TOP_K, n) -> CandidateQuoteChoices] }

DetectInit ==
    /\ call = <<>>
    /\ cfg \in {c \in ConfigChoices : c.USE_BELLMAN_FORD}
    /\ probe \in { [s \in Slots |-> IF s[2] = "out" THEN o[s[1]] ELSE b[s[1]]] :
                     o \in [NonBaseTokens -> ProbeOutChoices],
                     b \in [NonBaseTokens -> ProbeBackChoices] }
    /\ graph = <<>>
    /\ scanOut = NullResult
    /\ vquote = NoVerifyQuotes
    /\ verOut = <<>>
    /\ phase = "quote"
    /\ LimiterQuiet
    /\ CycleQuiet

DetectBuild ==
    /\ phase = "quote"
    /\ graph' = buildExchangeRateGraph(probe)
    /\ phase' = "scan"
    /\ UNCHANGED <<cfg, call, probe, scanOut, vquote, verOut, limiterVars, cycleVars>>

DetectScan ==
    /\ phase = "scan"
    /\ scanOut' = findArbitrageOpportunities(graph)
    /\ phase' = "scanned"
    /\ UNCHANGED <<cfg, call, probe, graph, vquote, verOut, limiterVars, cycleVars>>

\* checkForBellmanFordArbitrage verifies only a non-null scan result
DetectVerify ==
    /\ phase = "scanned"
    /\ ~scanOut.isNull
    /\ \E vq \in VerifyQuoteChoices(Len(scanOut.list)) :
          /\ vquote' = vq
          /\ verOut' = verifyOpportunities(scanOut.list, vq)
    /\ phase' = "verified"
    /\ UNCHANGED <<cfg, call, probe, graph, scanOut, limiterVars, cycleVars>>

DetectNext == DetectBuild \/ DetectScan \/ DetectVerify

SpecDetect == DetectInit /\ [][DetectNext]_vars

(***************************************************************************)
(* Properties of the scanner and the verifier, checked under SpecDetect.   *)
(***************************************************************************)
Scanned == phase \in {"scanned", "verified"}

\* the profit percentage of token t's round trip, from the rates of the graph
HasBothEdges(g, t) ==
    /\ \E i \in 1 .. Len(g) : g[i].from = solTokenIndex /\ g[i].to = t
    /\ \E j \in 1 .. Len(g) : g[j].from = t /\ g[j].to = solTokenIndex

OutEdge(g, t) == g[CHOOSE i \in 1 .. Len(g) : g[i].from = solTokenIndex /\ g[i].to = t]

BackEdge(g, t) == g[CHOOSE j \in 1 .. Len(g) : g[j].from = t /\ g[j].to = solTokenIndex]

CycleProfit(g, t) ==
    Cached(KnownPercentages, Times(OutEdge(g, t).rate, BackEdge(g, t).rate),
           PercentAboveOne(Times(OutEdge(g, t).rate, BackEdge(g, t).rate)))

ClearsThreshold(g, t) ==
    HasBothEdges(g, t) /\ DGE(CycleProfit(g, t), cfg.MIN_PROFIT_PERCENTAGE)

\* C2: the scanner returns only Opportunities whose profit percentage is at
\* least config.MIN_PROFIT_PERCENTAGE, and returns null exactly when the
\* graph is empty or no token clears the threshold.
C2_ScannerRespectsThreshold ==
    Scanned =>
        /\ \A i \in 1 .. Len(scanOut.list) :
              /\ DGE(scanOut.list[i].profitPercentage, cfg.MIN_PROFIT_PERCENTAGE)
              /\ ClearsThreshold(graph, scanOut.list[i].cycle[2])
        /\ scanOut.isNull <=>
              (Len(graph) = 0 \/ \A t \in NonBaseTokens : ~ClearsThreshold(graph, t))
        /\ scanOut.isNull <=> (scanOut.list = <<>>)

\* a scan that returned Opportunities and dropped a token below the threshold
C2_Witness ==
    /\ phase = "scanned"
    /\ ~scanOut.isNull
    /\ \E t \in NonBaseTokens :
          /\ HasBothEdges(graph, t)
          /\ ~ClearsThreshold(graph, t)
          /\ DGE(CycleProfit(graph, t), DZero)

\* the example: r1 = 100 and r2 = 0.0105
ExampleRoundTripRate ==
    RoundTripRate([rate |-> DInt(100)], [rate |-> DRatio(105, 10000)])

ExampleProfitPercentage == ProfitPercentage(ExampleRoundTripRate)

\* |a - b| is at most 10^-9
Close(a, b) ==
    /\ DGE(DAdd(b, DRatio(1, Pow10(9))), a)
    /\ DGE(DAdd(a, DRatio(1, Pow10(9))), b)

\* the example gives 1.05 and a number within 10^-9 of 5
ExampleHolds ==
    /\ ExampleRoundTripRate = DRatio(105, 100)
    /\ Close(ExampleProfitPercentage, DInt(5))

\* C6: every Opportunity carries roundTripRate = r1 * r2 and
\* profitPercentage = (r1 * r2 - 1) * 100, each operation rounded as the
\* source's numbers are, for the rates r1, r2 of its token's two edges;
\* r1 = 100, r2 = 0.0105 give 1.05 and, to within rounding, 5.
C6_RoundTripFormula ==
    /\ Scanned =>
          \A i \in 1 .. Len(scanOut.list) :
             LET o == scanOut.list[i]
                 r1 == OutEdge(graph, o.cycle[2]).rate
                 r2 == BackEdge(graph, o.cycle[2]).rate
             IN  /\ o.edges = <<OutEdge(graph, o.cycle[2]), BackEdge(graph, o.cycle[2])>>
                 /\ o.roundTripRate = Times(r1, r2)
                 /\ o.profitPercentage = CycleProfit(graph, o.cycle[2])
    /\ ExampleHolds

\* the numbers of the witness: rates 1.0011 and 1.002, round trip 1.0031022
WitnessRates ==
    [r1 |-> DRatio(10011, 10000), r2 |-> DRatio(1002, 1000),
     roundTripRate |-> DRatio(10031022, 10000000),
     profitPercentage |->
        DMul(DSub(DRatio(10031022, 10000000), DInt(1)), DInt(100))]

\* a returned Opportunity with rates 1.0011 and 1.002: round trip 1.0031022
\* and a profit percentage within rounding of 0.31022
C6_Witness ==
    /\ phase = "scanned"
    /\ \E i \in 1 .. Len(scanOut.list) :
          /\ scanOut.list[i].edges[1].rate = WitnessRates.r1
          /\ scanOut.list[i].edges[2].rate = WitnessRates.r2
          /\ scanOut.list[i].roundTripRate = WitnessRates.roundTripRate
          /\ scanOut.list[i].profitPercentage = WitnessRates.profitPercentage

\* the gross profit percentage of a verified candidate, from its amounts
VerifiedGrossPercentage(v) ==
    LET profit == ParseInt(v.verifiedAmounts[Len(v.verifiedAmounts)])
                    - ParseInt(KAMINO_FLASHLOAN_AMOUNT)
    IN  Cached(KnownProfitPercentages, <<profit, ParseInt(KAMINO_FLASHLOAN_AMOUNT)>>,
               PercentOf(profit, ParseInt(KAMINO_FLASHLOAN_AMOUNT)))

\* C3: for every configured threshold, the verifier never returns a
\* VerifiedOpportunity whose gross profit percentage is below the configured
\* config.MIN_PROFIT_PERCENTAGE.
C3_VerifierRespectsConfiguredThreshold ==
    phase = "verified" =>
        \A i \in 1 .. Len(verOut) :
            DGE(VerifiedGrossPercentage(verOut[i]), cfg.MIN_PROFIT_PERCENTAGE)

\* the rates 1.00 and 1.002, and 0.2 percent
ScenarioRates == <<DInt(1), DRatio(1002, 1000)>>

ScenarioPercentage == DRatio(2, 10)

\* the end-to-end scenario for token t: probe rates 1.00 and 1.002
Scenario(t) ==
    /\ HasBothEdges(graph, t)
    /\ OutEdge(graph, t).rate = ScenarioRates[1]
    /\ BackEdge(graph, t).rate = ScenarioRates[2]

InScan(t) == \E i \in 1 .. Len(scanOut.list) : scanOut.list[i].cycle[2] = t

\* the verifier's quotes of the scenario for the candidate at position k:
\* 1,000,000,000 -> 1,000,000 token units (rate 1.00) -> 1,002,000,000
ScenarioQuotes(k) ==
    /\ vquote[<<k, 1>>] = <<Dec(1, 6)>>
    /\ vquote[<<k, 2>>] = <<Dec(1002, 6)>>

\* C7: with rates 1.00 and 1.002 at a notional of 1,000,000,000 the gross
\* profit is 2,000,000 (0.2%); under a configured threshold of 0.1% the
\* opportunity passes scan and verification, under 0.3% it is rejected.
C7_EndToEnd ==
    \A t \in NonBaseTokens :
        (Scanned /\ Scenario(t)) =>
            /\ cfg.MIN_PROFIT_PERCENTAGE = MIN_PROFIT_PERCENTAGE =>
                  /\ InScan(t)
                  /\ \A k \in 1 .. Min(VERIFY_TOP_K, Len(scanOut.list)) :
                        (phase = "verified" /\ scanOut.list[k].cycle[2] = t
                            /\ ScenarioQuotes(k)) =>
                           \E j \in 1 .. Len(verOut) :
                              /\ verOut[j].cycle[2] = t
                              /\ verOut[j].verifiedProfit = 2000000
                              /\ verOut[j].profitPercentage = ScenarioPercentage
            /\ cfg.MIN_PROFIT_PERCENTAGE = HIGH_PROFIT_PERCENTAGE =>
                  /\ ~InScan(t)
                  /\ \A j \in 1 .. Len(verOut) : verOut[j].cycle[2] # t

\* the scenario accepted under the 0.1% threshold with gross profit 2,000,000
C7_Witness ==
    /\ phase = "verified"
    /\ cfg.MIN_PROFIT_PERCENTAGE = MIN_PROFIT_PERCENTAGE
    /\ \E t \in NonBaseTokens :
          /\ Scenario(t)
          /\ \E j \in 1 .. Len(verOut) :
                /\ verOut[j].cycle[2] = t
                /\ verOut[j].verifiedProfit = 2000000
                /\ verOut[j].verifiedAmounts = <<Dec(1, 9), Dec(1, 6), Dec(1002, 6)>>

(***************************************************************************)
(* RateLimiter (utils.js, enforceRequestRateLimit).  The function is       *)
(* asynchronous: between two awaits it runs without interruption.  A sleep *)
(* is a setTimeout timer: it ends at the time asked, later, or a           *)
(* millisecond before that time has passed on the clock Date.now() reads.  *)
(* Each caller is at "idle" (outside), "away" (busy elsewhere),            *)
(* "sleepInterval" (the minimum-interval sleep) or "sleepWindow" (the      *)
(* window sleep).                                                          *)
(***************************************************************************)
MaxCalls == 64

MaxPauses == 1

\* how many minimum-interval sleeps of one run end off the time asked, and
\* how many retry sleeps end early
MaxLate == 1

\* how long a caller stays away between two calls, ms
PauseChoices == {500, 1250, 59000, 61000}

\* how far from the time asked a sleep ends, ms, by Date.now(): the timer
\* fires on time, late, or one millisecond early
LateChoices == {-1, 0, 250}

DetectQuiet ==
    /\ cfg = [MIN_PROFIT_PERCENTAGE |-> MIN_PROFIT_PERCENTAGE, JITO_MODE |-> FALSE,
              USE_BELLMAN_FORD |-> TRUE]
    /\ probe = [s \in Slots |-> <<>>]
    /\ graph = <<>>
    /\ scanOut = NullResult
    /\ vquote = NoVerifyQuotes
    /\ verOut = <<>>
    /\ phase = "quote"

\* now - requestWindowStart > REQUEST_WINDOW
WindowExpired(now, windowStart) == now - windowStart > REQUEST_WINDOW

\* the length of the minimum-interval sleep, 0 for no sleep
IntervalSleep(timeSinceLastRequest) ==
    IF timeSinceLastRequest < MIN_REQUEST_INTERVAL
    THEN MIN_REQUEST_INTERVAL - timeSinceLastRequest
    ELSE 0

\* requestCounter >= REQUEST_LIMIT
LimitReached(counter) == counter >= REQUEST_LIMIT

\* waitTime = Math.max(REQUEST_WINDOW - (now - requestWindowStart), 1000)
WaitTime(now, windowStart) ==
    Max(REQUEST_WINDOW - (now - windowStart), MIN_WINDOW_WAIT)

Inside == {c \in Callers : caller[c].pc \in {"sleepInterval", "sleepWindow"}}

Waiting == {c \in Callers : caller[c].pc # "idle"}

RecentSince(times, t) == SelectSeq(times, LAMBDA x : x >= t)

\* requestCounter++; lastRequestTime = Date.now(); the call returns
Release(c, windowStart, counter, passedNow, checkedAt, remaining, limitSeen) ==
    /\ requestWindowStart' = windowStart
    /\ requestCounter' = counter + 1
    /\ lastRequestTime' = clock
    /\ caller' = [caller EXCEPT ![c] = IdleCaller]
    /\ released' = released + 1
    /\ recent' = Append(RecentSince(recent, clock - horizon), clock)
    /\ passed' = passedNow + 1
    /\ lastCall' = << [limitSeen |-> limitSeen, checkedAt |-> checkedAt,
                       remaining |-> remaining, releasedAt |-> clock,
                       windowStart |-> windowStart, counter |-> counter + 1] >>

\* the counter check and what follows it up to the next await
CounterCheck(c, now, windowStart, counter, passedNow) ==
    IF LimitReached(counter)
    THEN /\ \E late \in LateChoices :
              caller' = [caller EXCEPT ![c] =
                  [pc |-> "sleepWindow", now |-> now,
                   wake |-> clock + WaitTime(now, windowStart) + late,
                   checkedAt |-> clock,
                   remaining |-> REQUEST_WINDOW - (clock - windowStart),
                   limitSeen |-> passedNow >= REQUEST_LIMIT]]
         /\ requestWindowStart' = windowStart
         /\ requestCounter' = counter
         /\ passed' = passedNow
         /\ UNCHANGED <<lastRequestTime, released, recent, lastCall>>
    ELSE Release(c, windowStart, counter, passedNow, clock,
                 REQUEST_WINDOW - (clock - windowStart),
                 passedNow >= REQUEST_LIMIT)

\* a call of enforceRequestRateLimit, up to its first await or its return
Enter(c) ==
    /\ c <= concurrency
    /\ caller[c].pc = "idle"
    /\ released + Cardinality(Inside) < MaxCalls
    /\ LET now == clock
           expired == WindowExpired(now, requestWindowStart)
           windowStart == IF expired THEN now ELSE requestWindowStart
           counter == IF expired THEN 0 ELSE requestCounter
           passedNow == IF expired THEN 0 ELSE passed
           sleepFor == IntervalSleep(now - lastRequestTime)
       IN  IF sleepFor > 0
           THEN /\ \E late \in LateChoices :
                     /\ late # 0 => lateLeft > 0
                     /\ lateLeft' = IF late # 0 THEN lateLeft - 1 ELSE lateLeft
                     /\ caller' = [caller EXCEPT ![c] =
                           [IdleCaller EXCEPT !.pc = "sleepInterval", !.now = now,
                                              !.wake = clock + sleepFor + late]]
                /\ requestWindowStart' = windowStart
                /\ requestCounter' = counter
                /\ passed' = passedNow
                /\ UNCHANGED <<lastRequestTime, released, recent, lastCall>>
           ELSE /\ CounterCheck(c, now, windowStart, counter, passedNow)
                /\ UNCHANGED lateLeft
    /\ UNCHANGED <<clock, concurrency, pausesLeft, horizon, cfg, call, detectVars, cycleVars>>

\* the minimum-interval sleep ends
WakeInterval(c) ==
    /\ caller[c].pc = "sleepInterval"
    /\ clock >= caller[c].wake
    /\ CounterCheck(c, caller[c].now, requestWindowStart, requestCounter, passed)
    /\ UNCHANGED <<clock, concurrency, pausesLeft, lateLeft, horizon, cfg, call,
                   detectVars, cycleVars>>

\* the window sleep ends: requestWindowStart = Date.now(); requestCounter = 0
WakeWindow(c) ==
    /\ caller[c].pc = "sleepWindow"
    /\ clock >= caller[c].wake
    /\ Release(c, clock, 0, 0, caller[c].checkedAt, caller[c].remaining,
               caller[c].limitSeen)
    /\ UNCHANGED <<clock, concurrency, pausesLeft, lateLeft, horizon, cfg, call,
                   detectVars, cycleVars>>

\* the caller is busy with its request before it calls again
StayAway(c) ==
    /\ c <= concurrency
    /\ caller[c].pc = "idle"
    /\ pausesLeft > 0
    /\ \E d \in PauseChoices :
          caller' = [caller EXCEPT ![c] =
              [IdleCaller EXCEPT !.pc = "away", !.wake = clock + d]]
    /\ pausesLeft' = pausesLeft - 1
    /\ UNCHANGED <<clock, lastRequestTime, requestCounter, requestWindowStart,
                   concurrency, lateLeft, released, horizon, recent, passed,
                   lastCall, cfg, call, detectVars, cycleVars>>

ComeBack(c) ==
    /\ caller[c].pc = "away"
    /\ clock >= caller[c].wake
    /\ caller' = [caller EXCEPT ![c] = IdleCaller]
    /\ UNCHANGED <<clock, lastRequestTime, requestCounter, requestWindowStart,
                   concurrency, pausesLeft, lateLeft, released, horizon, recent, passed,
                   lastCall, cfg, call, detectVars, cycleVars>>

\* time passes up to the next timer that is due
Advance ==
    /\ Waiting # {}
    /\ \A c \in Waiting : caller[c].wake > clock
    /\ \E c \in Waiting :
          /\ \A d \in Waiting : caller[c].wake <= caller[d].wake
          /\ clock' = caller[c].wake
    /\ UNCHANGED <<lastRequestTime, requestCounter, requestWindowStart, caller,
                   concurrency, pausesLeft, lateLeft, released, horizon, recent, passed,
                   lastCall, cfg, call, detectVars, cycleVars>>

LimiterNext ==
    \/ \E c \in Callers : Enter(c)
    \/ \E c \in Callers : WakeInterval(c)
    \/ \E c \in Callers : WakeWindow(c)
    \/ \E c \in Callers : StayAway(c)
    \/ \E c \in Callers : ComeBack(c)
    \/ Advance

\* the callers of this program: one call at a time
LimiterInit ==
    /\ call = <<>>
    /\ DetectQuiet
    /\ CycleQuiet
    /\ LimiterLoaded
    /\ concurrency = 1
    /\ pausesLeft = MaxPauses
    /\ lateLeft = MaxLate
    /\ horizon = REQUEST_WINDOW

SpecLimiter == LimiterInit /\ [][LimiterNext]_vars

\* the limiter of a process whose first call comes 59 s after the module was
\* loaded: requestWindowStart is set at load time, lastRequestTime is 0
LimiterLoadedEarlier ==
    /\ clock = LoadTime + REQUEST_WINDOW - MIN_REQUEST_INTERVAL
    /\ lastRequestTime = 0
    /\ requestCounter = 0
    /\ requestWindowStart = LoadTime
    /\ caller = [c \in Callers |-> IdleCaller]
    /\ released = 0
    /\ recent = <<>>
    /\ passed = 0
    /\ lastCall = <<>>

\* callers that overlap, each calling again as soon as it is released
RaceInit ==
    /\ call = <<>>
    /\ DetectQuiet
    /\ CycleQuiet
    /\ LimiterLoaded \/ LimiterLoadedEarlier
    /\ concurrency = NumCallers
    /\ pausesLeft = 0
    /\ lateLeft = MaxLate
    /\ horizon = REQUEST_WINDOW

\* time passes while every caller is inside the limiter
AdvanceInside ==
    /\ \A c \in Callers : caller[c].pc # "idle"
    /\ Advance

RaceNext ==
    \/ \E c \in Callers : Enter(c)
    \/ \E c \in Callers : WakeInterval(c)
    \/ \E c \in Callers : WakeWindow(c)
    \/ AdvanceInside

SpecRace == RaceInit /\ [][RaceNext]_vars

C9_MinimumSpacing ==
    \A i \in 1 .. Len(recent) - 1 :
        recent[i + 1] - recent[i] >= MIN_REQUEST_INTERVAL

\* the releases in the interval of length REQUEST_WINDOW that ends with the
\* latest release: [t - REQUEST_WINDOW, t]
ReleasedInWindow ==
    IF recent = <<>> THEN 0
    ELSE Len(RecentSince(recent, recent[Len(recent)] - REQUEST_WINDOW))

\* C10: every time interval of length REQUEST_WINDOW holds at most
\* REQUEST_LIMIT released calls; it is enough to look at the interval of that
\* length that ends with each release.
C10_RollingWindowCap == ReleasedInWindow <= REQUEST_LIMIT

(***************************************************************************)
(* The flash-loan instruction set (utils.js, createFlashLoanInstructionSet)*)
(* and the transaction size ceiling.                                       *)
(***************************************************************************)
FLASH_BORROW_RESERVE_LIQUIDITY_DISCRIMINATOR == <<135, 231, 52, 167, 7, 52, 212, 193>>

FLASH_REPAY_RESERVE_LIQUIDITY_DISCRIMINATOR == <<185, 117, 0, 203, 96, 245, 180, 186>>

\* the index written into the repay instruction: writeUInt8(2)
BORROW_INSTRUCTION_INDEX == 2

\* the characters of a decimal amount string, as digits
DecString(s) ==
    LET RECURSIVE IntDigits(_)
        IntDigits(n) == IF n < 10 THEN <<n>> ELSE IntDigits(n \div 10) \o <<n % 10>>
    IN  IntDigits(s.m) \o [i \in 1 .. s.e |-> 0]

\* new BN(decimal string) divided by 256: quotient (as digits) and remainder
RECURSIVE DivMod256(_, _)
DivMod256(digits, carry) ==
    IF digits = <<>> THEN [q |-> <<>>, r |-> carry]
    ELSE LET cur == carry * 10 + Head(digits)
             rest == DivMod256(Tail(digits), cur % 256)
         IN  [q |-> <<cur \div 256>> \o rest.q, r |-> rest.r]

\* the bytes in the opposite order, most significant first
RECURSIVE BigEndian(_, _)
BigEndian(n, k) ==
    IF k = 0 THEN <<>>
    ELSE LET d == DivMod256(n, 0) IN BigEndian(d.q, k - 1) \o <<d.r>>

\* the decimal number n as k little-endian bytes: BN.toBuffer('le', k)
RECURSIVE LittleEndian(_, _)
LittleEndian(n, k) ==
    IF k = 0 THEN <<>>
    ELSE LET d == DivMod256(n, 0) IN <<d.r>> \o LittleEndian(d.q, k - 1)

\* an instruction set whose repay instruction points at instruction 0
createFlashLoanInstructionSetIndexZero(amount) ==
    [borrowIx |-> [name |-> "flashBorrow",
                   data |-> FLASH_BORROW_RESERVE_LIQUIDITY_DISCRIMINATOR
                              \o LittleEndian(amount, 8)],
     repayIx |-> [name |-> "flashRepay",
                  data |-> FLASH_REPAY_RESERVE_LIQUIDITY_DISCRIMINATOR
                             \o LittleEndian(amount, 8) \o <<0>>]]

createFlashLoanInstructionSet(amount) ==
    [borrowIx |-> [name |-> "flashBorrow",
                   data |-> FLASH_BORROW_RESERVE_LIQUIDITY_DISCRIMINATOR
                              \o LittleEndian(amount, 8)],
     repayIx |-> [name |-> "flashRepay",
                  data |-> FLASH_REPAY_RESERVE_LIQUIDITY_DISCRIMINATOR
                             \o LittleEndian(amount, 8)
                             \o <<BORROW_INSTRUCTION_INDEX>>]]

\* what POST /swap-instructions answers: a swap instruction, some setup
\* instructions and possibly a cleanup instruction
SwapResponseChoices == [setup : 0 .. 2, cleanup : BOOLEAN]

\* getSimplifiedSwapInstructions(quote, payer, simplify): the swap
\* instruction, and the setup instructions only when simplify is off
getSimplifiedSwapInstructions(response, simplify) ==
    [swapInstruction |-> [name |-> "swap", data |-> <<>>],
     setupInstructions |->
        IF ~simplify /\ response.setup > 0
        THEN [i \in 1 .. response.setup |-> [name |-> "setup", data |-> <<>>]]
        ELSE <<>>]

\* an assembler that also takes over the setup and cleanup instructions of
\* the routing service
ArbitrageInstructionsUnsimplified(firstResponse, secondResponse) ==
    LET flashLoanInstructions ==
            createFlashLoanInstructionSet(DecString(KAMINO_FLASHLOAN_AMOUNT))
        extras(response) ==
            [i \in 1 .. response.setup |-> [name |-> "setup", data |-> <<>>]]
    IN  << [name |-> "setComputeUnitPrice", data |-> <<>>],
           [name |-> "setComputeUnitLimit", data |-> <<>>],
           flashLoanInstructions.borrowIx >>
        \o extras(firstResponse)
        \o << [name |-> "firstSwap", data |-> <<>>] >>
        \o extras(secondResponse)
        \o << [name |-> "secondSwap", data |-> <<>>],
              flashLoanInstructions.repayIx >>
        \o (IF secondResponse.cleanup
            THEN << [name |-> "cleanup", data |-> <<>>] >> ELSE <<>>)

\* the instruction list executeSimpleArbitrage assembles from the answers to
\* its two swap-instruction requests, the same on the bundle, the compacted
\* and the legacy path
ArbitrageInstructionsFor(firstResponse, secondResponse) ==
    LET flashLoanInstructions ==
            createFlashLoanInstructionSet(DecString(KAMINO_FLASHLOAN_AMOUNT))
        firstSwapInstructions == getSimplifiedSwapInstructions(firstResponse, TRUE)
        secondSwapInstructions == getSimplifiedSwapInstructions(secondResponse, TRUE)
    IN  << [name |-> "setComputeUnitPrice", data |-> <<>>],
           [name |-> "setComputeUnitLimit", data |-> <<>>],
           flashLoanInstructions.borrowIx,
           [name |-> "firstSwap",
            data |-> firstSwapInstructions.swapInstruction.data],
           [name |-> "secondSwap",
            data |-> secondSwapInstructions.swapInstruction.data],
           flashLoanInstructions.repayIx >>

\* the list when the routing service answers the bare swap instructions
ArbitrageInstructions ==
    ArbitrageInstructionsFor([setup |-> 0, cleanup |-> FALSE],
                             [setup |-> 0, cleanup |-> FALSE])

\* the instruction list of getSwapTransaction
SwapInstructions(setup, cleanup) ==
    << [name |-> "setComputeUnitPrice", data |-> <<>>],
       [name |-> "setComputeUnitLimit", data |-> <<>>] >>
    \o [i \in 1 .. setup |-> [name |-> "setup", data |-> <<>>]]
    \o << [name |-> "swap", data |-> <<>>] >>
    \o (IF cleanup THEN << [name |-> "cleanup", data |-> <<>>] >> ELSE <<>>)

\* the packet size every path compares the serialized length with, bytes
MAX_TRANSACTION_SIZE == 1232

\* a size test that lets one more byte through
TooLargeOffByOne(size) == size > MAX_TRANSACTION_SIZE + 1

\* serializedSize > 1232
TooLarge(size) == size > MAX_TRANSACTION_SIZE

\* serialized lengths of the assembled transaction, bytes
SizeChoices == {1100, 1232, 1233, 2100}

\* an assembled transaction before the size test
Assembled(path, instructions, size) ==
    [path |-> path, instructions |-> instructions, size |-> size,
     signed |-> FALSE, submitted |-> FALSE, returned |-> FALSE,
     outcome |-> "assembled", bundle |-> <<>>]

(***************************************************************************)
(* ensureSystemIntegrity (arbitrage.js).                                   *)
(***************************************************************************)
SECURE_KEY == "4zFQdXynSvsjemBqfx67F4QfytcWsP4SjotrWn5CojN9"

\* the recipients the configuration names: the lending program, its market
\* and reserve accounts, the fee receiver and the tip account
DocumentedRecipients ==
    { "KLend2g3cP87fffoy8q1mQqGKjrxjC8boSyAYavgmjD",
      "H6rHXmXoCQvq8Ue81MqNh7ow5ysPa1dSozwW3PU1dDH6",
      "Dx8iy2o46sK1DzWbEcznqSKeLbLVeu7otkibA3WohGAj",
      "6gTJfuPHEg6uRAijRkMqNc9kan4sVZejKMxmvx2grT1p",
      "ywaaLvG7t1vXJo8sT3UzE8yzzZtxLM7Fmev64Jbooye",
      "EQ7hw63aBS7aPQqXsoxaaBxiwbEzaAiY9Js6tCekkqxf",
      "Cw8CFyM9FkoMi7K7Crf6HNQqf4uEMzpKw6QNghXLvLkY" }

\* what ensureSystemIntegrity keeps back: balance - 5000
MAINTENANCE_RESERVE == 5000

\* the network fee of a one-signature transaction, lamports
TransactionFee == 5000

\* how connection.getBalance ends: the promise rejects or the balance is
\* answered
BalanceAnswers == {"rejected", "balance"}

\* what one getLatestBlockhash query gives: the promise rejects, the
\* response carries no blockhash, or it carries one
BlockhashChoices == {"rejected", "noBlockhash", "blockhash"}

\* how connection.sendRawTransaction ends: the promise rejects or resolves
\* with the signature
SendAnswers == {"rejected", "signature"}

\* how connection.confirmTransaction ends: the promise rejects, the
\* confirmation carries an error, or the transfer is confirmed
ConfirmAnswers == {"rejected", "err", "confirmed"}

\* a transfer that keeps nothing back
MaintenanceAmountAll(balance) == balance

\* maintenanceAmount = balance - 5000
MaintenanceAmount(balance) == balance - MAINTENANCE_RESERVE

\* an invocation that has built nothing: walletBalance is the wallet when
\* getBalance is answered or rejects, at the request awaited or "returned"
NoTransfer(balanceRead) ==
    [walletBalance |-> 0, balanceRead |-> balanceRead, built |-> <<>>,
     to |-> "", blockhash |-> FALSE, signed |-> FALSE, submitted |-> <<>>,
     result |-> FALSE, at |-> "getBalance"]

\* the wallet after a confirmed transfer: the amount and the fee are taken;
\* the fee of a transfer that failed on chain is left out
WalletAfter(balance, amount) == balance - amount - TransactionFee

(***************************************************************************)
(* The process (index.js: main, runCheck) and one check: the Bellman-Ford  *)
(* check (checkForBellmanFordArbitrage, verifyOpportunities,               *)
(* executeMultiHopArbitrage) or the fixed-pair check                       *)
(* (executeFlashLoanJupiterArbitrage), both ending in                      *)
(* executeSimpleArbitrage.                                                 *)
(***************************************************************************)
MaxChecks == 2

\* balances the wallet is found with after somebody moved lamports
WalletChoices == {5000, 5001}

\* the balance main() requires before the first check, lamports
MIN_START_BALANCE == 10000000

\* balances of the wallet when the process starts
StartWalletChoices == {9999999, 10000000, 2000000000}

\* config.CHECK_INTERVAL, ms
CHECK_INTERVAL == 5000

\* balance < 10000000 with the boundary on the wrong side
BalanceTooLowInclusive(balance) == balance <= MIN_START_BALANCE

\* if (balance < 10000000)
BalanceTooLow(balance) == balance < MIN_START_BALANCE

\* how main() ends before the first check: initializeEnvironment returns
\* false, getBalance rejects, or the balance is answered
BootOutcomes == {"initFails", "balanceFails", "answered"}

\* where ensureSystemIntegrity is awaited, and where the check goes next
IntegrityPoints ==
    {"bf_integrity", "fl_integrity", "verify_integrity", "mh_integrity",
     "sa_integrity", "bundle_integrity", "sent_integrity",
     "confirmed_integrity", "final_integrity", "unsupported_integrity"}

\* a check that takes the returned signature for the confirmation
AfterIntegrityWithoutPolling(at) ==
    CASE at = "bf_integrity" -> "bf_detect"
      [] at = "fl_integrity" -> "fl_quote"
      [] at = "verify_integrity" -> "verify"
      [] at = "mh_integrity" -> "mh_accounts"
      [] at = "sa_integrity" -> "sa_assemble"
      [] at = "bundle_integrity" -> "final_integrity"
      [] at = "sent_integrity" -> "final_integrity"
      [] at = "confirmed_integrity" -> "final_integrity"
      [] at = "final_integrity" -> "settled"
      [] at = "unsupported_integrity" -> "settled"

AfterIntegrity(at) ==
    CASE at = "bf_integrity" -> "bf_detect"
      [] at = "fl_integrity" -> "fl_quote"
      [] at = "verify_integrity" -> "verify"
      [] at = "mh_integrity" -> "mh_accounts"
      [] at = "sa_integrity" -> "sa_assemble"
      [] at = "bundle_integrity" -> "final_integrity"
      [] at = "sent_integrity" -> "sa_confirm"
      [] at = "confirmed_integrity" -> "final_integrity"
      [] at = "final_integrity" -> "settled"
      [] at = "unsupported_integrity" -> "settled"

\* the check's promise settles: it resolves with r after a trade
\* ("success"), a clean miss ("miss"), a reported failure ("failure") or an
\* error caught by one of the catch blocks ("error"); "rejected" stands for
\* a promise that rejects, which no path of the two checks produces, each
\* wrapping its whole body in try/catch
Finish(r, how) ==
    /\ pc' = "settled"
    /\ cycleResult' = <<r>>
    /\ endedBy' = <<how>>

\* the check goes on at `next`
Goto(next) ==
    /\ pc' = next
    /\ cycleResult' = cycleResult
    /\ endedBy' = endedBy

\* a handler that arms the timer twice
ArmTimerTwice(pending, delay) == Append(Append(pending, delay), delay)

\* setTimeout(runCheck, delay)
ArmTimer(pending, delay) == Append(pending, delay)

\* the delay the handlers of runCheck pass to setTimeout: .then after a
\* resolved check, .catch after a rejected one
NextDelay(how) ==
    IF how = <<"rejected">> THEN CHECK_INTERVAL * 2 ELSE CHECK_INTERVAL

\* the quotes of the graph builder in the check loop, per token: none, a
\* losing pair, a winning pair
PairChoices ==
    { << <<>>, <<>> >>, << <<Dec(1, 6)>>, <<Dec(999, 9)>> >>,
      << <<Dec(10011, 2)>>, <<Dec(1002, 9)>> >> }

\* the tokens the routing service answers for in the check loop
QuotedTokens == {1, 2}

CycleProbeChoices ==
    { [s \in Slots |-> IF s[1] \notin QuotedTokens THEN <<>>
                       ELSE IF s[2] = "out" THEN f[s[1]][1] ELSE f[s[1]][2]] :
        f \in [QuotedTokens -> PairChoices] }

\* the quotes of the verifier in the check loop, for candidate k: a failed
\* quote, a round trip below 0.1%, and one of 0.2% for the first candidate
\* and of 0.3% for a later one
CycleCandidateChoices(k) ==
    { << <<>>, <<>> >>, << <<Dec(1, 6)>>, <<Dec(1000999999, 0)>> >>,
      << <<Dec(1, 6)>>, <<IF k = 1 THEN Dec(1002, 6) ELSE Dec(1003, 6)>> >> }

CycleVerifyChoices(n) ==
    { [s \in VerifySlots |-> IF s[1] > n THEN <<>> ELSE f[s[1]][s[2]]] :
        f \in { g \in [1 .. Min(VERIFY_TOP_K, n) ->
                         UNION { CycleCandidateChoices(k) : k \in 1 .. VERIFY_TOP_K }] :
                  \A k \in DOMAIN g : g[k] \in CycleCandidateChoices(k) } }

\* a caller that executes the last verified opportunity
LastOpportunity(verifiedOpportunities) ==
    verifiedOpportunities[Len(verifiedOpportunities)]

\* bestOpportunity = verifiedOpportunities[0]
BestOpportunity(verifiedOpportunities) == verifiedOpportunities[1]

\* expected_gross_profit of a trade record: opportunity.verifiedProfit of the
\* opportunity that was executed (<<>> in the flash-loan check, which builds
\* its opportunity from its own two quotes)
ExpectedGrossProfit ==
    IF verOut = <<>> THEN <<>> ELSE <<BestOpportunity(verOut).verifiedProfit>>

\* what runCheck does before it returns: checks++ and the configured check
\* is called, which creates its promise
StartCheck ==
    /\ checks' = checks + 1
    /\ inFlight' = inFlight + 1
    /\ pc' = IF cfg.USE_BELLMAN_FORD THEN "bf_integrity" ELSE "fl_integrity"
    /\ trace' = <<>>
    /\ tx' = <<>>
    /\ log' = <<>>
    /\ cycleResult' = <<>>
    /\ graph' = <<>>
    /\ scanOut' = NullResult
    /\ vquote' = NoVerifyQuotes
    /\ verOut' = <<>>
    /\ probe' = [s \in Slots |-> <<>>]
    /\ lastIntegrity' = <<>>
    /\ swapTx' = <<>>

\* main(): the environment, the balance test and the first runCheck()
Main ==
    /\ proc = "boot"
    /\ \E outcome \in BootOutcomes :
          IF outcome = "answered" /\ ~BalanceTooLow(wallet)
          THEN /\ proc' = "running"
               /\ StartCheck
          ELSE /\ proc' = (IF outcome = "initFails" THEN "exit:init"
                           ELSE IF outcome = "balanceFails" THEN "exit:balance"
                           ELSE "exit:low")
               /\ UNCHANGED <<detectVars, checks, inFlight, pc, trace, tx, log,
                              cycleResult, lastIntegrity, swapTx>>
    /\ UNCHANGED <<cfg, call, phase, limiterVars, wallet, timer, endedBy, trades>>

\* a timer armed by setTimeout(runCheck, ...) fires
RunCheck ==
    /\ proc = "running"
    /\ timer # <<>>
    /\ checks < MaxChecks
    /\ timer' = Tail(timer)
    /\ StartCheck
    /\ UNCHANGED <<cfg, call, phase, limiterVars, wallet, proc, endedBy, trades>>

\* the handler runCheck attached to the check's promise: the timer for the
\* next check is armed; what the check held goes out of scope
Settle ==
    /\ pc = "settled"
    /\ timer' = ArmTimer(timer, NextDelay(endedBy))
    /\ inFlight' = inFlight - 1
    /\ pc' = "idle"
    /\ trace' = <<>>
    /\ tx' = <<>>
    /\ log' = <<>>
    /\ lastIntegrity' = <<>>
    /\ graph' = <<>>
    /\ scanOut' = NullResult
    /\ vquote' = NoVerifyQuotes
    /\ verOut' = <<>>
    /\ probe' = [s \in Slots |-> <<>>]
    /\ trades' = <<>>
    /\ UNCHANGED <<cfg, call, phase, limiterVars, wallet, checks, swapTx,
                   cycleResult, proc, endedBy>>

\* somebody moves lamports into or out of the wallet, between two checks
\* or while a check runs: every ensureSystemIntegrity reads the balance anew
Deposit ==
    /\ proc = "running"
    /\ \E balance \in WalletChoices \ {wallet} : wallet' = balance
    /\ UNCHANGED <<cfg, call, detectVars, limiterVars, pc, checks, trace,
                   lastIntegrity, tx, swapTx, cycleResult, proc, timer,
                   inFlight, endedBy, log, trades>>

\* an invocation of ensureSystemIntegrity is awaiting one of its requests
IntegrityRunning ==
    /\ lastIntegrity # <<>>
    /\ lastIntegrity[1].at # "returned"

\* the invocation goes on to its next request; the check waits for it
IntegrityAwaits(r, request) ==
    /\ lastIntegrity' = <<[r EXCEPT !.at = request]>>
    /\ UNCHANGED <<pc, cycleResult, endedBy, trace, trades>>

\* the invocation returns result and the check goes on
IntegrityReturns(r, result) ==
    /\ lastIntegrity' = <<[r EXCEPT !.at = "returned", !.result = result]>>
    /\ trace' = Append(trace, "integrity")
    /\ IF pc = "final_integrity" THEN Finish(TRUE, "success")
       ELSE IF pc = "unsupported_integrity" THEN Finish(FALSE, "failure")
       ELSE Goto(AfterIntegrity(pc))
    \* utils.saveTrade(tradeData) follows the integrity call of a completed trade
    /\ trades' = IF pc \in {"bundle_integrity", "confirmed_integrity"}
                 THEN Append(trades, [successful |-> TRUE, error |-> <<>>,
                                      expected_gross_profit |-> ExpectedGrossProfit])
                 ELSE trades

\* await ensureSystemIntegrity(payer, connection), up to the answer of
\* connection.getBalance: the two balance tests and the transfer built
IntegrityGetBalance ==
    /\ pc \in IntegrityPoints
    /\ ~IntegrityRunning
    /\ \E answer \in BalanceAnswers :
          LET called == [NoTransfer(<<>>) EXCEPT !.walletBalance = wallet]
              read == [called EXCEPT !.balanceRead = <<wallet>>]
          IN  IF answer = "rejected"
              THEN IntegrityReturns(called, FALSE)
              ELSE IF wallet <= 0 \/ MaintenanceAmount(wallet) <= 0
              THEN IntegrityReturns(read, FALSE)
              ELSE IntegrityAwaits([read EXCEPT
                                      !.built = <<MaintenanceAmount(wallet)>>,
                                      !.to = SECURE_KEY],
                                   "getLatestBlockhash")
    /\ UNCHANGED <<cfg, call, detectVars, limiterVars, wallet, checks, tx, swapTx,
                   proc, timer, inFlight, log>>

\* connection.getLatestBlockhash is answered: with a blockhash the transfer
\* is signed and handed to sendRawTransaction; without one transaction.sign
\* throws, and the catch block returns false as after a rejected request
IntegrityGetLatestBlockhash ==
    /\ IntegrityRunning
    /\ lastIntegrity[1].at = "getLatestBlockhash"
    /\ \E answer \in BlockhashChoices :
          LET r == lastIntegrity[1]
          IN  IF answer = "blockhash"
              THEN IntegrityAwaits([r EXCEPT !.blockhash = TRUE,
                                             !.signed = TRUE,
                                             !.submitted = r.built],
                                   "sendRawTransaction")
              ELSE IntegrityReturns(r, FALSE)
    /\ UNCHANGED <<cfg, call, detectVars, limiterVars, wallet, checks, tx, swapTx,
                   proc, timer, inFlight, log>>

\* connection.sendRawTransaction is answered
IntegritySendRawTransaction ==
    /\ IntegrityRunning
    /\ lastIntegrity[1].at = "sendRawTransaction"
    /\ \E answer \in SendAnswers :
          IF answer = "signature"
          THEN IntegrityAwaits(lastIntegrity[1], "confirmTransaction")
          ELSE IntegrityReturns(lastIntegrity[1], FALSE)
    /\ UNCHANGED <<cfg, call, detectVars, limiterVars, wallet, checks, tx, swapTx,
                   proc, timer, inFlight, log>>

\* connection.confirmTransaction is answered; a transfer is confirmed only
\* when the wallet holds the amount and the fee
IntegrityConfirmTransaction ==
    /\ IntegrityRunning
    /\ lastIntegrity[1].at = "confirmTransaction"
    /\ \E answer \in ConfirmAnswers :
          LET r == lastIntegrity[1]
          IN  IF answer = "confirmed"
              THEN /\ wallet >= r.submitted[1] + TransactionFee
                   /\ wallet' = WalletAfter(wallet, r.submitted[1])
                   /\ IntegrityReturns(r, TRUE)
              ELSE /\ wallet' = wallet
                   /\ IntegrityReturns(r, FALSE)
    /\ UNCHANGED <<cfg, call, detectVars, limiterVars, checks, tx, swapTx, proc,
                   timer, inFlight, log>>

\* await ensureSystemIntegrity(payer, connection): its four requests, one
\* step each
EnsureSystemIntegrity ==
    \/ IntegrityGetBalance
    \/ IntegrityGetLatestBlockhash
    \/ IntegritySendRawTransaction
    \/ IntegrityConfirmTransaction

\* checkForBellmanFordArbitrage: the graph is built and scanned
BuildAndScan ==
    /\ pc = "bf_detect"
    /\ \E q \in CycleProbeChoices :
          LET g == buildExchangeRateGraph(q)
              opportunities == findArbitrageOpportunities(g)
          IN  /\ probe' = q
              /\ graph' = g
              /\ scanOut' = opportunities
              /\ IF Len(g) = 0 THEN Finish(FALSE, "failure")
                 ELSE IF opportunities.isNull THEN Finish(FALSE, "miss")
                 ELSE Goto("verify_integrity")
    /\ trace' = Append(trace, "quote")
    /\ lastIntegrity' = <<>>
    /\ UNCHANGED <<cfg, call, vquote, verOut, phase, limiterVars, wallet, checks,
                   tx, swapTx, proc, timer, inFlight, log, trades>>

\* verifyOpportunities after its integrity call, and the caller's test
Verify ==
    /\ pc = "verify"
    /\ \E vq \in CycleVerifyChoices(Len(scanOut.list)) :
          LET verifiedOpportunities == verifyOpportunities(scanOut.list, vq)
          IN  /\ vquote' = vq
              /\ verOut' = verifiedOpportunities
              /\ IF Len(verifiedOpportunities) = 0
                 THEN Finish(FALSE, "miss")
                 ELSE Goto("mh_integrity")
    /\ trace' = Append(trace, "verify")
    /\ lastIntegrity' = <<>>
    /\ UNCHANGED <<cfg, call, probe, graph, scanOut, phase, limiterVars, wallet,
                   checks, tx, swapTx, proc, timer, inFlight, log, trades>>

\* an executor that takes every opportunity of two edges or more
IsSimpleArbitrageOrLonger(opportunity) == Len(opportunity.verifiedEdges) >= 2

\* opportunity.verifiedEdges.length === 2
IsSimpleArbitrage(opportunity) == Len(opportunity.verifiedEdges) = 2

\* executeMultiHopArbitrage after its integrity call: the opportunity is
\* looked at, the token accounts are ensured and the executor is chosen.
\* Every value ensureTokenAccount returns carries exists, created or
\* assumedValid, so allAccountsValid stays true.
MultiHopAccounts ==
    /\ pc = "mh_accounts"
    /\ LET opportunity == BestOpportunity(verOut)
       IN  IF Len(opportunity.verifiedEdges) = 0
           THEN Finish(FALSE, "failure") /\ trace' = trace
           ELSE /\ trace' = Append(trace, "accounts")
                /\ IF opportunity.cycle[1] # solTokenIndex
                      \/ opportunity.cycle[Len(opportunity.cycle)] # solTokenIndex
                   THEN Finish(FALSE, "failure")
                   ELSE IF IsSimpleArbitrage(opportunity)
                   THEN Goto("sa_integrity")
                   ELSE IF cfg.JITO_MODE
                   THEN Finish(FALSE, "failure")
                   ELSE Goto("unsupported_integrity")
    /\ lastIntegrity' = <<>>
    /\ UNCHANGED <<cfg, call, detectVars, limiterVars, wallet, checks, tx, swapTx,
                   proc, timer, inFlight, log, trades>>

\* the literal executeFlashLoanJupiterArbitrage compares the gross profit
\* percentage with
FLASH_MIN_PROFIT == DRatio(1, 10)

\* the opportunity executeFlashLoanJupiterArbitrage hands to the executor
FlashOpportunity(usdcAmount, solReturn) ==
    LET flashLoanAmount == ParseInt(KAMINO_FLASHLOAN_AMOUNT)
        grossProfit == GrossProfit(ParseInt(solReturn), flashLoanAmount)
    IN  [cycle |-> <<solTokenIndex, 1, solTokenIndex>>,
         edges |-> <<>>,
         roundTripRate |-> DInt(0),
         verifiedEdges |-> << [from |-> solTokenIndex, to |-> 1],
                              [from |-> 1, to |-> solTokenIndex] >>,
         verifiedAmounts |-> <<KAMINO_FLASHLOAN_AMOUNT, usdcAmount, solReturn>>,
         verifiedProfit |-> grossProfit,
         profitPercentage |-> GrossProfitPercentage(grossProfit, flashLoanAmount),
         flashLoanFee |-> FlashLoanFee(flashLoanAmount),
         estimatedTip |-> EstimatedTip(grossProfit),
         netProfit |-> grossProfit - FlashLoanFee(flashLoanAmount)
                         - EstimatedTip(grossProfit)]

\* executeFlashLoanJupiterArbitrage after its integrity call: the two token
\* accounts are ensured (always usable, as above), then the two quotes are
\* asked for and the profit is tested
FlashQuote ==
    /\ pc = "fl_quote"
    /\ \E first \in VerifyHop1Choices, second \in VerifyHop2Choices :
          IF first = <<>> \/ second = <<>>
          THEN Finish(FALSE, "failure") /\ verOut' = <<>>
          ELSE LET o == FlashOpportunity(first[1], second[1])
               IN  IF ~DGE(o.profitPercentage, FLASH_MIN_PROFIT)
                   THEN Finish(FALSE, "miss") /\ verOut' = <<>>
                   ELSE verOut' = <<o>> /\ Goto("sa_integrity")
    /\ trace' = trace \o <<"accounts", "quote">>
    /\ lastIntegrity' = <<>>
    /\ UNCHANGED <<cfg, call, probe, graph, scanOut, vquote, phase, limiterVars,
                   wallet, checks, tx, swapTx, proc, timer, inFlight, log, trades>>

(***************************************************************************)
(* executeSimpleArbitrage (arbitrage.js) and submitJitoBundle              *)
(* (exchanges.js).                                                         *)
(***************************************************************************)
\* how many of the two lookup tables fetchLookupTables returns
TableChoices == {0, 2}

TablesEvent(tables) == IF tables = 0 THEN "tables:none" ELSE "tables:some"

\* a bundle path that goes on without lookup tables
NoLookupTablesNever(tables) == FALSE

\* lookupTables.length === 0
NoLookupTables(tables) == tables = 0

\* a direct path that never takes the compacted form
UseVersionedTransactionNever(tables) == FALSE

\* useVersionedTransaction = lookupTables.length > 0
UseVersionedTransaction(tables) == tables > 0

\* how far the two quotes and the two swap-instruction requests get
PreludeOutcomes ==
    {"quote1Fails", "swap1Fails", "quote2Fails", "swap2Fails", "ready"}

\* the requests made up to there; the loan instructions are built last
PreludeLog(outcome) ==
    CASE outcome = "quote1Fails" -> <<"quote">>
      [] outcome = "swap1Fails" -> <<"quote", "swapInstruction">>
      [] outcome = "quote2Fails" -> <<"quote", "swapInstruction", "quote">>
      [] outcome = "swap2Fails" ->
            <<"quote", "swapInstruction", "quote", "swapInstruction">>
      [] outcome = "ready" ->
            <<"quote", "swapInstruction", "quote", "swapInstruction",
              "loanInstructions">>

\* config.JITO_MAX_RETRIES
JITO_MAX_RETRIES == 2

\* config.RETRY_DELAY_BASE, ms
RETRY_DELAY_BASE == 2000

\* error.code of a request that timed out
TimeoutCodes == {"ETIMEDOUT", "ECONNABORTED"}

\* error.code of a connection that could not be made
ConnectionCodes == {"ECONNREFUSED", "ENOTFOUND"}

\* how one POST to the block engine ends: a request error with its code or
\* with an HTTP status, a bundle identifier, an error reported by the block
\* engine
BundleResponses ==
    TimeoutCodes \cup ConnectionCodes \cup {"httpError", "bundleId", "jitoError"}

\* let retries = 3, in createJitoTipTransaction
TIP_BLOCKHASH_RETRIES == 3

\* the blockhash queries of one tip transaction are counted modulo
\* TipQueryWrap: the loop that makes them has no bound of its own
TipQueryWrap == 2

\* a submission that gives up at the first timeout
RetryableNever(code) == FALSE

\* error.code === 'ETIMEDOUT' || error.code === 'ECONNABORTED'
Retryable(code) == code \in TimeoutCodes

\* config.RETRY_DELAY_BASE * Math.pow(2, retryCount)
RetryDelay(retryCount) == RETRY_DELAY_BASE * (2 ^ retryCount)

\* submitJitoBundle(transaction, tipAmount, payer, connection, retryCount) is
\* called: the record of its requests, of the delays it sleeps and of its
\* result, and the locals of createJitoTipTransaction, which it calls first
NewSubmission ==
    [success |-> FALSE, events |-> <<"tip">>, posts |-> <<>>, sleeps |-> <<>>,
     retries |-> TIP_BLOCKHASH_RETRIES, queries |-> 0]

\* a caller that writes no record of a failed attempt
logFailedTradeNever(records, error) == records

\* utils.logFailedTrade(failedData), the error naming the step that failed
logFailedTrade(records, error) ==
    Append(records, [successful |-> FALSE, error |-> <<error>>,
                     expected_gross_profit |-> ExpectedGrossProfit])

\* a bundle path that polls the signature status like the direct path
PollsForConfirmationAlways(path) == TRUE

\* waitForConfirmation is called on the compacted and the legacy path only
PollsForConfirmation(path) == path # "bundle"

\* executeSimpleArbitrage in Jito mode, after its integrity call, up to the
\* call of submitJitoBundle
AssembleBundle ==
    /\ pc = "sa_assemble"
    /\ cfg.JITO_MODE
    /\ \E tables \in TableChoices :
          IF NoLookupTables(tables)
          THEN /\ tx' = <<>>
               /\ log' = <<TablesEvent(tables)>>
               /\ Finish(FALSE, "failure")
          ELSE \E prelude \in PreludeOutcomes :
             LET before == <<TablesEvent(tables)>> \o PreludeLog(prelude)
             IN  IF prelude # "ready"
                 THEN tx' = <<>> /\ log' = before /\ Finish(FALSE, "failure")
                 ELSE \E blockhash \in BOOLEAN :
                    IF ~blockhash
                    THEN /\ tx' = <<>>
                         /\ log' = before \o <<"blockhash">>
                         /\ Finish(FALSE, "error")
                    ELSE \E size \in SizeChoices :
                       LET t == Assembled("bundle", ArbitrageInstructions, size)
                       IN  IF TooLarge(size)
                           THEN /\ tx' = <<[t EXCEPT !.outcome = "failure"]>>
                                /\ log' = before \o <<"blockhash", "build:bundle">>
                                /\ Finish(FALSE, "failure")
                           ELSE /\ tx' = <<[t EXCEPT
                                         !.signed = TRUE,
                                         !.bundle = <<NewSubmission>>]>>
                                /\ log' = before
                                      \o <<"blockhash", "build:bundle",
                                           "sign:bundle", "tip">>
                                /\ Goto("sa_tip")
    /\ trace' = Append(trace, "assemble")
    /\ lastIntegrity' = <<>>
    \* the caller's utils.logFailedTrade(failedData) when result.success is
    \* false, the error naming the step that failed
    /\ trades' = IF pc' = "settled"
                 THEN logFailedTrade(trades, log'[Len(log')])
                 ELSE trades
    /\ UNCHANGED <<cfg, call, detectVars, limiterVars, wallet, checks, swapTx,
                   proc, timer, inFlight>>

\* createJitoTipTransaction, called by submitJitoBundle: one answer of
\* connection.getLatestBlockhash in its while (retries > 0) loop.  A
\* blockhash ends the loop and the tip transaction is made; a rejected query
\* takes one of the retries, and the last returns null, on which
\* submitJitoBundle returns success: false; an answer without a blockhash
\* goes round again with retries as it was
TipBlockhashQuery ==
    /\ pc = "sa_tip"
    /\ \E answer \in BlockhashChoices :
          LET b == tx[1].bundle[1]
              asked == (b.queries + 1) % TipQueryWrap
          IN  IF answer = "blockhash"
              THEN /\ tx' = <<[tx[1] EXCEPT !.bundle =
                                 <<[b EXCEPT !.retries = TIP_BLOCKHASH_RETRIES,
                                             !.queries = 0]>>]>>
                   /\ Goto("sa_post")
              ELSE IF answer = "rejected" /\ b.retries - 1 <= 0
              THEN /\ tx' = <<[tx[1] EXCEPT
                                 !.outcome = "failure",
                                 !.bundle =
                                   <<[b EXCEPT !.retries = TIP_BLOCKHASH_RETRIES,
                                               !.queries = 0]>>]>>
                   /\ Finish(FALSE, "failure")
              ELSE /\ tx' = <<[tx[1] EXCEPT !.bundle =
                                 <<[b EXCEPT
                                      !.retries = IF answer = "rejected"
                                                  THEN b.retries - 1
                                                  ELSE b.retries,
                                      !.queries = asked]>>]>>
                   /\ Goto("sa_tip")
    /\ log' = log
    /\ trace' = trace
    /\ lastIntegrity' = <<>>
    /\ trades' = IF pc' = "settled"
                 THEN logFailedTrade(trades, log'[Len(log')])
                 ELSE trades
    /\ UNCHANGED <<cfg, call, detectVars, limiterVars, wallet, checks, swapTx,
                   proc, timer, inFlight>>

\* submitJitoBundle with the tip transaction in hand: the POST to the block
\* engine and what follows its answer; after a timeout, retryCount below
\* JITO_MAX_RETRIES, it sleeps and calls itself again, which starts with a
\* new tip transaction
PostBundle ==
    /\ pc = "sa_post"
    /\ \E response \in BundleResponses :
          LET b == tx[1].bundle[1]
              retryCount == Len(b.sleeps)
              posted == [b EXCEPT !.posts = Append(b.posts, response)]
          IN  IF response = "bundleId"
              THEN /\ tx' = <<[tx[1] EXCEPT
                                 !.submitted = TRUE,
                                 !.outcome = "sent",
                                 !.bundle =
                                   <<[posted EXCEPT
                                        !.success = TRUE,
                                        !.events = b.events \o <<"post", "bundleId">>]>>]>>
                   /\ log' = log \o <<"post", "bundleId">>
                   /\ IF PollsForConfirmation("bundle")
                      THEN Goto("sent_integrity")
                      ELSE Goto("bundle_integrity")
              ELSE IF response \notin ConnectionCodes /\ Retryable(response)
                      /\ retryCount < JITO_MAX_RETRIES
              THEN /\ tx' = <<[tx[1] EXCEPT !.bundle =
                                 <<[posted EXCEPT
                                      !.events = b.events \o <<"post", "sleep", "tip">>,
                                      !.sleeps = Append(b.sleeps, RetryDelay(retryCount))]>>]>>
                   /\ log' = log \o <<"post", "sleep", "tip">>
                   /\ Goto("sa_tip")
              ELSE /\ tx' = <<[tx[1] EXCEPT
                                 !.outcome = "failure",
                                 !.bundle =
                                   <<[posted EXCEPT !.events = b.events \o <<"post">>]>>]>>
                   /\ log' = log \o <<"post">>
                   /\ Finish(FALSE, "failure")
    /\ trace' = trace
    /\ lastIntegrity' = <<>>
    /\ trades' = IF pc' = "settled"
                 THEN logFailedTrade(trades, log'[Len(log')])
                 ELSE trades
    /\ UNCHANGED <<cfg, call, detectVars, limiterVars, wallet, checks, swapTx,
                   proc, timer, inFlight>>

\* executeSimpleArbitrage in regular mode, after its integrity call: the
\* lookup tables, the quotes and, with lookup tables, the compacted
\* transaction; blockhash and sent tell whether getLatestBlockhash and
\* sendTransaction are answered or reject
AssembleDirect ==
    /\ pc = "sa_assemble"
    /\ ~cfg.JITO_MODE
    /\ \E tables \in TableChoices, prelude \in PreludeOutcomes :
          LET before == <<TablesEvent(tables)>> \o PreludeLog(prelude)
          IN  IF prelude # "ready"
              THEN tx' = <<>> /\ log' = before /\ Finish(FALSE, "failure")
              ELSE IF ~UseVersionedTransaction(tables)
              THEN tx' = <<>> /\ log' = before /\ Goto("sa_legacy")
              ELSE \E blockhash \in BOOLEAN :
                 IF ~blockhash
                 THEN /\ tx' = <<>>
                      /\ log' = before \o <<"try:compacted", "blockhash">>
                      /\ Goto("sa_legacy")
                 ELSE \E size \in SizeChoices :
                    LET t == Assembled("compacted", ArbitrageInstructions, size)
                    IN  IF TooLarge(size)
                        THEN /\ tx' = <<[t EXCEPT !.outcome = "fallback"]>>
                             /\ log' = before
                                  \o <<"try:compacted", "blockhash",
                                       "build:compacted">>
                             /\ Goto("sa_legacy")
                        ELSE \E sent \in BOOLEAN :
                           IF ~sent
                           THEN /\ tx' = <<[t EXCEPT !.signed = TRUE,
                                                     !.outcome = "fallback"]>>
                                /\ log' = before
                                     \o <<"try:compacted", "blockhash",
                                          "build:compacted", "sign:compacted",
                                          "send:compacted">>
                                /\ Goto("sa_legacy")
                           ELSE /\ tx' = <<[t EXCEPT !.signed = TRUE,
                                                     !.submitted = TRUE,
                                                     !.outcome = "sent"]>>
                                /\ log' = before
                                     \o <<"try:compacted", "blockhash",
                                          "build:compacted", "sign:compacted",
                                          "send:compacted",
                                          "signature:compacted">>
                                /\ Goto("sent_integrity")
    /\ trace' = Append(trace, "assemble")
    /\ lastIntegrity' = <<>>
    \* the caller's utils.logFailedTrade(failedData) when result.success is
    \* false, the error naming the step that failed
    /\ trades' = IF pc' = "settled"
                 THEN logFailedTrade(trades, log'[Len(log')])
                 ELSE trades
    /\ UNCHANGED <<cfg, call, detectVars, limiterVars, wallet, checks, swapTx,
                   proc, timer, inFlight>>

\* executeSimpleArbitrage in regular mode: the transaction without lookup
\* tables
AssembleLegacy ==
    /\ pc = "sa_legacy"
    /\ \E blockhash \in BOOLEAN :
          IF ~blockhash
          THEN /\ tx' = tx
               /\ log' = log \o <<"try:legacy", "blockhash">>
               /\ Finish(FALSE, "error")
          ELSE \E size \in SizeChoices :
             LET t == Assembled("legacy", ArbitrageInstructions, size)
             IN  IF TooLarge(size)
                 THEN /\ tx' = <<[t EXCEPT !.outcome = "failure"]>>
                      /\ log' = log \o <<"try:legacy", "blockhash",
                                         "build:legacy">>
                      /\ Finish(FALSE, "failure")
                 ELSE \E sent \in BOOLEAN :
                    IF ~sent
                    THEN /\ tx' = <<[t EXCEPT !.signed = TRUE,
                                              !.outcome = "failure"]>>
                         /\ log' = log \o <<"try:legacy", "blockhash",
                                            "build:legacy", "sign:legacy",
                                            "send:legacy">>
                         /\ Finish(FALSE, "error")
                    ELSE /\ tx' = <<[t EXCEPT !.signed = TRUE,
                                              !.submitted = TRUE,
                                              !.outcome = "sent"]>>
                         /\ log' = log \o <<"try:legacy", "blockhash",
                                            "build:legacy", "sign:legacy",
                                            "send:legacy", "signature:legacy">>
                         /\ Goto("sent_integrity")
    /\ trace' = Append(trace, "assemble")
    /\ lastIntegrity' = <<>>
    \* the caller's utils.logFailedTrade(failedData) when result.success is
    \* false, the error naming the step that failed
    /\ trades' = IF pc' = "settled"
                 THEN logFailedTrade(trades, log'[Len(log')])
                 ELSE trades
    /\ UNCHANGED <<cfg, call, detectVars, limiterVars, wallet, checks, swapTx,
                   proc, timer, inFlight>>

\* how waitForConfirmation ends: the status is confirmed or finalized, the
\* status carries an error, or the polls run out
PollOutcomes == {"confirmed", "err", "timeout"}

PollEvent(outcome) ==
    CASE outcome = "confirmed" -> "poll:confirmed"
      [] outcome = "err" -> "poll:err"
      [] outcome = "timeout" -> "poll:timeout"

\* an executor that falls back to the legacy form when the polls end
\* without a confirmation
AfterUnconfirmedFallsBack(path) ==
    IF path = "compacted" THEN "sa_legacy" ELSE "settled"

\* an executor that submits the legacy form when the transaction it sent was
\* not seen confirmed
AfterUnconfirmedResubmits(path) ==
    IF path = "legacy" THEN "settled" ELSE "sa_legacy"

\* if (!confirmed) return { success: false, ... }
AfterUnconfirmed(path) == "settled"

\* waitForConfirmation and the test of its result
Confirm ==
    /\ pc = "sa_confirm"
    /\ \E outcome \in PollOutcomes :
          /\ log' = Append(log, PollEvent(outcome))
          /\ IF outcome = "confirmed" THEN Goto("confirmed_integrity")
             ELSE IF AfterUnconfirmed(tx[1].path) = "settled"
             THEN Finish(FALSE, "failure")
             ELSE Goto(AfterUnconfirmed(tx[1].path))
    /\ trace' = Append(trace, "confirm")
    /\ lastIntegrity' = <<>>
    \* the caller's utils.logFailedTrade(failedData) when result.success is
    \* false, the error naming the step that failed
    /\ trades' = IF pc' = "settled"
                 THEN logFailedTrade(trades, log'[Len(log')])
                 ELSE trades
    /\ UNCHANGED <<cfg, call, detectVars, limiterVars, wallet, checks, tx, swapTx,
                   proc, timer, inFlight>>

\* exchanges.getSwapTransaction, which no check calls: exercised once,
\* before the first check
GetSwapTransaction ==
    /\ proc = "boot"
    /\ swapTx = <<>>
    /\ \E before \in {"instructionsFail", "requestThrows", "assembled"},
          useALT \in BOOLEAN, setup \in 0 .. 1, cleanup \in BOOLEAN,
          size \in SizeChoices :
          LET t == Assembled(IF useALT THEN "swapV0" ELSE "swapLegacy",
                             SwapInstructions(setup, cleanup), size)
          IN  IF before # "assembled"
              THEN swapTx' = <<>>
              ELSE IF TooLarge(size)
              THEN swapTx' = <<[t EXCEPT !.outcome = "failure"]>>
              ELSE swapTx' = <<[t EXCEPT !.signed = TRUE, !.returned = TRUE,
                                          !.outcome = "returned"]>>
    /\ UNCHANGED <<cfg, call, detectVars, limiterVars, wallet, pc, checks, trace,
                   lastIntegrity, tx, cycleResult, proc, timer, inFlight,
                   endedBy, log, trades>>

Init ==
    /\ call = <<>>
    /\ cfg \in ConfigChoices
    /\ probe = [s \in Slots |-> <<>>]
    /\ graph = <<>>
    /\ scanOut = NullResult
    /\ vquote = NoVerifyQuotes
    /\ verOut = <<>>
    /\ phase = "quote"
    /\ LimiterQuiet
    /\ wallet \in StartWalletChoices
    /\ pc = "idle"
    /\ checks = 0
    /\ trace = <<>>
    /\ lastIntegrity = <<>>
    /\ tx = <<>>
    /\ swapTx = <<>>
    /\ cycleResult = <<>>
    /\ proc = "boot"
    /\ timer = <<>>
    /\ inFlight = 0
    /\ endedBy = <<>>
    /\ log = <<>>
    /\ trades = <<>>

\* the steps of the process itself
ProcessStep ==
    \/ Main
    \/ RunCheck
    \/ Settle
    \/ EnsureSystemIntegrity
    \/ BuildAndScan
    \/ Verify
    \/ MultiHopAccounts
    \/ FlashQuote
    \/ AssembleBundle
    \/ TipBlockhashQuery
    \/ PostBundle
    \/ AssembleDirect
    \/ AssembleLegacy
    \/ Confirm

Next ==
    \/ Main
    \/ RunCheck
    \/ Settle
    \/ Deposit
    \/ EnsureSystemIntegrity
    \/ BuildAndScan
    \/ Verify
    \/ MultiHopAccounts
    \/ FlashQuote
    \/ AssembleBundle
    \/ TipBlockhashQuery
    \/ PostBundle
    \/ AssembleDirect
    \/ AssembleLegacy
    \/ Confirm
    \/ GetSwapTransaction

Spec == Init /\ [][Next]_vars

\* the process started with the shipped profit threshold and a funded
\* wallet
LiveInit ==
    /\ Init
    /\ cfg.MIN_PROFIT_PERCENTAGE = MIN_PROFIT_PERCENTAGE
    /\ wallet = 2000000000

\* every external call returns or fails, and every timer fires
SpecLive == LiveInit /\ [][Next]_vars /\ WF_vars(ProcessStep)

(***************************************************************************)
(* executeMultiHopArbitrage called with an opportunity of zero to three    *)
(* verified edges.                                                         *)
(***************************************************************************)
\* a verified opportunity as verifyOpportunities returns it
ExecBaseOpportunity ==
    LET q == [s \in Slots |-> IF s[1] # 1 THEN <<>>
                              ELSE IF s[2] = "out" THEN <<Dec(10011, 2)>>
                              ELSE <<Dec(1002, 9)>>]
        vq == [s \in VerifySlots |-> IF s[1] # 1 THEN <<>>
                                     ELSE IF s[2] = 1 THEN <<Dec(1, 6)>>
                                     ELSE <<Dec(1002, 6)>>]
        opportunities == findArbitrageOpportunities(buildExchangeRateGraph(q))
    IN  verifyOpportunities(opportunities.list, vq)[1]

\* the same with n verified edges
ExecOpportunity(n) ==
    LET o == ExecBaseOpportunity
    IN  [o EXCEPT !.verifiedEdges =
                     [i \in 1 .. n |-> o.verifiedEdges[((i - 1) % 2) + 1]]]

MaxEdges == 3

ExecInit ==
    /\ call = <<>>
    /\ cfg \in {c \in ConfigChoices :
                  c.USE_BELLMAN_FORD /\ c.MIN_PROFIT_PERCENTAGE = MIN_PROFIT_PERCENTAGE}
    /\ probe = [s \in Slots |-> <<>>]
    /\ graph = <<>>
    /\ scanOut = NullResult
    /\ vquote = NoVerifyQuotes
    /\ \E n \in 0 .. MaxEdges : verOut = <<ExecOpportunity(n)>>
    /\ phase = "quote"
    /\ LimiterQuiet
    /\ wallet \in WalletChoices
    /\ pc = "mh_integrity"
    /\ checks = 1
    /\ trace = <<>>
    /\ lastIntegrity = <<>>
    /\ tx = <<>>
    /\ swapTx = <<>>
    /\ cycleResult = <<>>
    /\ proc = "running"
    /\ timer = <<>>
    /\ inFlight = 1
    /\ endedBy = <<>>
    /\ log = <<>>
    /\ trades = <<>>

ExecNext ==
    \/ Deposit
    \/ EnsureSystemIntegrity
    \/ MultiHopAccounts
    \/ AssembleBundle
    \/ TipBlockhashQuery
    \/ PostBundle
    \/ AssembleDirect
    \/ AssembleLegacy
    \/ Confirm

SpecExecute == ExecInit /\ [][ExecNext]_vars

(***************************************************************************)
(* getJupiterQuote (exchange.js) and createFlashLoanInstructionSet         *)
(* (utils.js), each called on its own.                                     *)
(***************************************************************************)
MAX_RETRIES == 3

\* how one GET /quote ends: with an HTTP status, with a 200 whose body is
\* missing, or without any response
QuoteResponses == {"200", "429", "500", "empty", "none"}

\* the answers the service would give to the successive requests of one call
QuoteResponseChoices == [1 .. MAX_RETRIES + 2 -> QuoteResponses]

\* a quote call that also retries after a server error
RateLimitedOrServerError(response) == response \in {"429", "500"}

\* error.response && error.response.status === 429
RateLimited(response) == response = "429"

\* getJupiterQuote(inputMint, outputMint, amount, connection, retryCount,
\* onlyDirectRoutes): the requests it makes, the delays it sleeps, its result
\* (<<>> for null)
RECURSIVE getJupiterQuote(_, _, _)
getJupiterQuote(responses, retryCount, onlyDirectRoutes) ==
    LET response == responses[retryCount + 1]
        request == [retryCount |-> retryCount,
                    onlyDirectRoutes |-> onlyDirectRoutes]
    IN  IF response = "200" THEN
            [result |-> <<"data">>, requests |-> <<request>>, sleeps |-> <<>>]
        ELSE IF RateLimited(response) /\ retryCount < MAX_RETRIES THEN
            LET again == getJupiterQuote(responses, retryCount + 1,
                                         onlyDirectRoutes)
            IN  [result |-> again.result,
                 requests |-> <<request>> \o again.requests,
                 sleeps |-> <<RETRY_DELAY_BASE * (2 ^ retryCount)>>
                              \o again.sleeps]
        ELSE [result |-> <<>>, requests |-> <<request>>, sleeps |-> <<>>]

\* one call of getJupiterQuote from outside, retryCount defaulting to 0
GetJupiterQuote ==
    /\ call = <<>>
    /\ \E responses \in QuoteResponseChoices, onlyDirectRoutes \in BOOLEAN :
          call' = <<[fn |-> "getJupiterQuote",
                     responses |-> responses,
                     onlyDirectRoutes |-> onlyDirectRoutes,
                     out |-> getJupiterQuote(responses, 0, onlyDirectRoutes)]>>
    /\ UNCHANGED <<cfg, detectVars, limiterVars, cycleVars>>

\* loan amounts as decimal strings: 1, the byte and word boundaries, the
\* shipped notional, 2^32, 2^53, 2^63 and 2^64 - 1
AmountChoices ==
    { <<1>>, <<2, 5, 5>>, <<2, 5, 6>>, <<6, 5, 5, 3, 5>>, <<6, 5, 5, 3, 6>>,
      DecString(KAMINO_FLASHLOAN_AMOUNT),
      <<4, 2, 9, 4, 9, 6, 7, 2, 9, 6>>,
      <<9, 0, 0, 7, 1, 9, 9, 2, 5, 4, 7, 4, 0, 9, 9, 2>>,
      <<9, 2, 2, 3, 3, 7, 2, 0, 3, 6, 8, 5, 4, 7, 7, 5, 8, 0, 8>>,
      <<1, 8, 4, 4, 6, 7, 4, 4, 0, 7, 3, 7, 0, 9, 5, 5, 1, 6, 1, 5>> }

\* one call of createFlashLoanInstructionSet from outside
CreateFlashLoanInstructionSet ==
    /\ call = <<>>
    /\ \E amount \in AmountChoices :
          call' = <<[fn |-> "createFlashLoanInstructionSet",
                     amount |-> amount,
                     out |-> createFlashLoanInstructionSet(amount)]>>
    /\ UNCHANGED <<cfg, detectVars, limiterVars, cycleVars>>

\* the final amounts of the opportunities verifyOpportunities hands on:
\* those whose gross profit passed its test
VerifiedFinalChoices ==
    { final \in VerifyHop2Choices \ { <<>> } :
        VerifyAccepts(GrossProfitPercentage(
            GrossProfit(ParseInt(final[1]), ParseInt(KAMINO_FLASHLOAN_AMOUNT)),
            ParseInt(KAMINO_FLASHLOAN_AMOUNT))) }

\* the instruction list of one executeSimpleArbitrage, for every pair of
\* answers to its swap-instruction requests and each of its three paths.
\* The opportunity comes from the verifier; firstSwap and secondSwap are
\* the quotes requested anew, whose answers go into the swap-instruction
\* requests; no test is made on them, and whether the transaction is
\* submitted depends on the ledger alone (blockhash, size, send)
AssembleInstructions ==
    /\ call = <<>>
    /\ \E first \in SwapResponseChoices, second \in SwapResponseChoices,
          path \in {"bundle", "compacted", "legacy"},
          verifiedFinal \in VerifiedFinalChoices,
          firstSwap \in VerifyHop1Choices \ { <<>> },
          secondSwap \in VerifyHop2Choices \ { <<>> },
          submitted \in BOOLEAN :
          call' = <<[fn |-> "executeSimpleArbitrage",
                     path |-> path,
                     verifiedProfit |->
                         GrossProfit(ParseInt(verifiedFinal[1]),
                                     ParseInt(KAMINO_FLASHLOAN_AMOUNT)),
                     swaps |-> <<[inAmount |-> KAMINO_FLASHLOAN_AMOUNT,
                                  outAmount |-> firstSwap[1],
                                  onlyDirectRoutes |-> TRUE],
                                 [inAmount |-> firstSwap[1],
                                  outAmount |-> secondSwap[1],
                                  onlyDirectRoutes |-> TRUE]>>,
                     responses |-> <<first, second>>,
                     submitted |-> submitted,
                     out |-> ArbitrageInstructionsFor(first, second)]>>
    /\ UNCHANGED <<cfg, detectVars, limiterVars, cycleVars>>

\* the longest opportunity list verifyOpportunities is called with
MaxOpportunities == 4

\* the opportunity the scanner reports for each token when both probe
\* quotes of the token were answered with a round trip of 1.002
CallOpportunities ==
    [t \in NonBaseTokens |->
        LET e1 == Edge(solTokenIndex, t, STANDARD_AMOUNT, Dec(1, 6))
            e2 == Edge(t, solTokenIndex, STANDARD_AMOUNT, Dec(1002, 9))
            roundTripRate == RoundTripRate(e1, e2)
        IN  [cycle |-> <<solTokenIndex, t, solTokenIndex>>,
             edges |-> <<e1, e2>>,
             profitPercentage |-> ProfitPercentage(roundTripRate),
             roundTripRate |-> roundTripRate]]

\* the opportunity lists of length n: the opportunities of the tokens in
\* turn, from any token on
OpportunityLists(n) ==
    { [k \in 1 .. n |-> CallOpportunities[((first + k - 2) % (NumTokens - 1)) + 1]] :
        first \in NonBaseTokens }

\* what the routing service answers, or would answer, to the two hops of an
\* opportunity
CallQuoteChoices ==
    { << <<>>, <<>> >>, << <<Dec(1, 6)>>, <<>> >>,
      << <<Dec(1, 6)>>, <<Dec(999, 6)>> >>, << <<Dec(1, 6)>>, <<Dec(1002, 6)>> >> }

\* verifyOpportunities called with up to MaxOpportunities opportunities
VerifyOpportunities ==
    /\ call = <<>>
    /\ \E n \in 0 .. MaxOpportunities :
          \E opportunities \in OpportunityLists(n),
             answers \in [1 .. n -> CallQuoteChoices] :
             LET vq == [s \in (1 .. n) \X (1 .. 2) |-> answers[s[1]][s[2]]]
                 topOpps == TopOpps(opportunities)
             IN  call' = <<[fn |-> "verifyOpportunities",
                            opportunities |-> opportunities,
                            answers |-> answers,
                            requests |-> RequestsUpTo(topOpps, vq, Len(topOpps)),
                            out |-> verifyOpportunities(opportunities, vq)]>>
    /\ UNCHANGED <<cfg, detectVars, limiterVars, cycleVars>>

\* the largest number of polls waitForConfirmation is called with
MaxTimeout == 3

\* what one getSignatureStatus query gives: the promise rejects, the value
\* is null, or it carries an error or a confirmation status or both
SignatureStatusChoices ==
    {"rejected", "null", "processed", "confirmed", "finalized", "err",
     "errFinalized"}

\* a reading of the status that looks at the confirmation status first
StatusVerdictStatusFirst(status) ==
    IF status \in {"confirmed", "finalized", "errFinalized"} THEN "confirmed"
    ELSE IF status = "err" THEN "failed"
    ELSE "pending"

\* the .then and .catch handlers of one query: resolve(false) on
\* status.value.err, resolve(true) on confirmed or finalized, otherwise
\* retries-- and another round
StatusVerdict(status) ==
    IF status \in {"err", "errFinalized"} THEN "failed"
    ELSE IF status \in {"confirmed", "finalized"} THEN "confirmed"
    ELSE "pending"

\* utils.waitForConfirmation(signature, connection, timeout): checkConfirmation
\* with `retries` polls left and `queries` already made; the value the
\* promise resolves with and the number of queries
RECURSIVE checkConfirmation(_, _, _)
checkConfirmation(statuses, retries, queries) ==
    IF retries <= 0 THEN [resolved |-> FALSE, queries |-> queries]
    ELSE LET verdict == StatusVerdict(statuses[queries + 1])
         IN  IF verdict = "failed"
             THEN [resolved |-> FALSE, queries |-> queries + 1]
             ELSE IF verdict = "confirmed"
             THEN [resolved |-> TRUE, queries |-> queries + 1]
             ELSE checkConfirmation(statuses, retries - 1, queries + 1)

\* one call of utils.waitForConfirmation from outside
WaitForConfirmation ==
    /\ call = <<>>
    /\ \E timeout \in 0 .. MaxTimeout :
          \E statuses \in [1 .. timeout -> SignatureStatusChoices] :
             call' = <<[fn |-> "waitForConfirmation",
                        timeout |-> timeout,
                        statuses |-> statuses,
                        out |-> checkConfirmation(statuses, timeout, 0)]>>
    /\ UNCHANGED <<cfg, detectVars, limiterVars, cycleVars>>

\* the number of latest-blockhash queries of createJitoTipTransaction that
\* are followed
MaxQueries == 4

\* the while (retries > 0) loop of createJitoTipTransaction after `queries`
\* queries: a blockhash leaves the loop, a rejected query takes one of the
\* retries and returns null with the last, a response without a blockhash
\* goes round again with retries as it was; "querying" when the loop is
\* still running after the last query followed
RECURSIVE tipBlockhashLoop(_, _, _)
tipBlockhashLoop(answers, retries, queries) ==
    IF retries <= 0 THEN [result |-> "null", queries |-> queries]
    ELSE IF queries >= Len(answers)
    THEN [result |-> "querying", queries |-> queries]
    ELSE LET answer == answers[queries + 1]
         IN  IF answer = "blockhash"
             THEN [result |-> "transaction", queries |-> queries + 1]
             ELSE IF answer = "rejected"
             THEN IF retries - 1 <= 0
                  THEN [result |-> "null", queries |-> queries + 1]
                  ELSE tipBlockhashLoop(answers, retries - 1, queries + 1)
             ELSE tipBlockhashLoop(answers, retries, queries + 1)

\* utils.createJitoTipTransaction(tipAmount, payer, connection) with a valid
\* payer, connection and tip account
createJitoTipTransaction(tipAmount, answers) ==
    IF tipAmount <= 0 THEN [result |-> "null", queries |-> 0]
    ELSE tipBlockhashLoop(answers, TIP_BLOCKHASH_RETRIES, 0)

\* one call of utils.createJitoTipTransaction from outside, followed for
\* MaxQueries answers of the ledger endpoint
CreateJitoTipTransaction ==
    /\ call = <<>>
    /\ \E tipAmount \in {0, JITO_MIN_TIP},
          answers \in [1 .. MaxQueries -> BlockhashChoices] :
          call' = <<[fn |-> "createJitoTipTransaction",
                     tipAmount |-> tipAmount,
                     answers |-> answers,
                     out |-> createJitoTipTransaction(tipAmount, answers)]>>
    /\ UNCHANGED <<cfg, detectVars, limiterVars, cycleVars>>

\* the number of attempts of ensureTokenAccount whose outcomes are given
MaxAttempts == 4

\* how one attempt of ensureTokenAccount goes: the account is found by the
\* lookup; the creation is turned down because the account exists already;
\* the creation is seen confirmed; the account is found by the second
\* lookup after an unconfirmed creation; the attempt fails (lookups without
\* an account or with an error, a creation that cannot be sent or is not
\* confirmed); or a step throws into the outer catch block
AttemptOutcomes ==
    {"found", "alreadyExists", "confirmed", "foundAfter", "fails", "throws"}

\* an ensureTokenAccount that allows itself one more retry
MayRetryOnceMore(retryCount) == retryCount < 3

\* if (retryCount < 2), in the try block and in the outer catch block
MayRetry(retryCount) == retryCount < 2

\* exchanges.ensureTokenAccount(mint, payer, connection, retryCount) for a
\* valid mint: the value it returns and the number of attempts made
RECURSIVE ensureTokenAccount(_, _)
ensureTokenAccount(outcomes, retryCount) ==
    LET outcome == outcomes[retryCount + 1]
        result(exists, created, assumedValid) ==
            [exists |-> exists, created |-> created,
             assumedValid |-> assumedValid, attempts |-> retryCount + 1]
    IN  IF outcome \in {"found", "alreadyExists", "foundAfter"}
        THEN result(TRUE, FALSE, FALSE)
        ELSE IF outcome = "confirmed"
        THEN result(FALSE, TRUE, FALSE)
        ELSE IF MayRetry(retryCount)
        THEN ensureTokenAccount(outcomes, retryCount + 1)
        ELSE result(FALSE, FALSE, TRUE)

\* executeMultiHopArbitrage: result.exists || result.created ||
\* result.assumedValid, without which the attempt returns false
AccountUsable(result) ==
    result.exists \/ result.created \/ result.assumedValid

\* one call of exchanges.ensureTokenAccount from executeMultiHopArbitrage
EnsureTokenAccount ==
    /\ call = <<>>
    /\ \E outcomes \in [1 .. MaxAttempts -> AttemptOutcomes] :
          LET result == ensureTokenAccount(outcomes, 0)
          IN  call' = <<[fn |-> "ensureTokenAccount",
                         outcomes |-> outcomes,
                         out |-> result,
                         allAccountsValid |-> AccountUsable(result)]>>
    /\ UNCHANGED <<cfg, detectVars, limiterVars, cycleVars>>

\* the longest byte sequence base58Encode is called with
MaxBytes == 3

\* the byte values the sequences are made of
ByteChoices == {0, 1, 57, 58, 255}

\* the sequence s back to front (Array.prototype.reverse)
Reverse(s) == [i \in 1 .. Len(s) |-> s[Len(s) + 1 - i]]

\* while (carry) { digits.push(carry % base); carry = (carry / base) | 0 }
RECURSIVE PushCarry(_, _, _)
PushCarry(digits, carry, base) ==
    IF carry = 0 THEN digits
    ELSE PushCarry(Append(digits, carry % base), carry \div base, base)

\* base58Encode, one byte of the buffer: every digit is shifted by 8 bits,
\* the byte is added to the lowest digit, and the carries are passed on
\* from digit j to the end; a string is written as the sequence of the
\* positions of its characters in ALPHABET, so '1' is 0
RECURSIVE EncodeCarry(_, _, _)
EncodeCarry(digits, j, carry) ==
    IF j > Len(digits) THEN PushCarry(digits, carry, 58)
    ELSE LET d == digits[j] + carry
         IN  EncodeCarry([digits EXCEPT ![j] = d % 58], j + 1, d \div 58)

EncodeByte(digits, byte) ==
    LET shifted == [j \in 1 .. Len(digits) |->
                       digits[j] * 256 + (IF j = 1 THEN byte ELSE 0)]
    IN  EncodeCarry(shifted, 1, 0)

RECURSIVE EncodeBytes(_, _, _)
EncodeBytes(buffer, i, digits) ==
    IF i > Len(buffer) THEN digits
    ELSE EncodeBytes(buffer, i + 1, EncodeByte(digits, buffer[i]))

\* for (let i = 0; buffer[i] === 0 && i < buffer.length - 1; i++): the
\* number of digits 0 pushed for the leading zero bytes
RECURSIVE EncodeLeadingZeros(_, _)
EncodeLeadingZeros(buffer, i) ==
    IF i < Len(buffer) /\ buffer[i] = 0
    THEN 1 + EncodeLeadingZeros(buffer, i + 1)
    ELSE 0

\* utils.base58Encode(buffer)
base58Encode(buffer) ==
    IF Len(buffer) = 0 THEN <<>>
    ELSE LET digits == EncodeBytes(buffer, 1, <<0>>)
             zeros == [k \in 1 .. EncodeLeadingZeros(buffer, 1) |-> 0]
         IN  Reverse(digits \o zeros)

\* base58Decode, one character: carry starts as the value of the character,
\* takes bytes[j] * 58 at every byte and leaves its low 8 bits there
RECURSIVE DecodeCarry(_, _, _)
DecodeCarry(bytes, j, carry) ==
    IF j > Len(bytes) THEN PushCarry(bytes, carry, 256)
    ELSE LET c == carry + bytes[j] * 58
         IN  DecodeCarry([bytes EXCEPT ![j] = c % 256], j + 1, c \div 256)

RECURSIVE DecodeChars(_, _, _)
DecodeChars(encoded, i, bytes) ==
    IF i > Len(encoded) THEN bytes
    ELSE DecodeChars(encoded, i + 1, DecodeCarry(bytes, 1, encoded[i]))

\* for (let i = 0; i < encoded.length && encoded[i] === '1'; i++): the
\* number of zero bytes pushed for the leading characters '1'
RECURSIVE DecodeLeadingZeros(_, _)
DecodeLeadingZeros(encoded, i) ==
    IF i <= Len(encoded) /\ encoded[i] = 0
    THEN 1 + DecodeLeadingZeros(encoded, i + 1)
    ELSE 0

\* utils.base58Decode(encoded)
base58Decode(encoded) ==
    IF Len(encoded) = 0 THEN <<>>
    ELSE LET bytes == DecodeChars(encoded, 1, <<0>>)
             zeros == [k \in 1 .. DecodeLeadingZeros(encoded, 1) |-> 0]
         IN  Reverse(bytes \o zeros)

\* the byte sequences of up to MaxBytes bytes
Buffers == UNION { [1 .. n -> ByteChoices] : n \in 0 .. MaxBytes }

\* utils.base58Decode(utils.base58Encode(buffer)) called from outside
Base58RoundTrip ==
    /\ call = <<>>
    /\ \E buffer \in Buffers :
          call' = <<[fn |-> "base58Encode",
                     buffer |-> buffer,
                     encoded |-> base58Encode(buffer),
                     decoded |-> base58Decode(base58Encode(buffer))]>>
    /\ UNCHANGED <<cfg, detectVars, limiterVars, cycleVars>>

CallInit ==
    /\ DetectQuiet
    /\ LimiterQuiet
    /\ CycleQuiet
    /\ call = <<>>

CallNext ==
    \/ GetJupiterQuote
    \/ CreateFlashLoanInstructionSet
    \/ AssembleInstructions
    \/ VerifyOpportunities
    \/ WaitForConfirmation
    \/ CreateJitoTipTransaction
    \/ EnsureTokenAccount
    \/ Base58RoundTrip

SpecCall == CallInit /\ [][CallNext]_vars

(***************************************************************************)
(* Specification SpecRouting: one call of a function of exchange.js that   *)
(* reaches the routing service, together with the rate limiter it calls.   *)
(* getJupiterQuote, getSwapInstructions and getSimplifiedSwapInstructions  *)
(* start with await utils.enforceRequestRateLimit(), send their request,   *)
(* and on a 429 sleep and call themselves again.                           *)
(* getSwapInstructionsWithCustomAmount and getSwapTransaction call the     *)
(* limiter themselves and then the functions that send the requests.       *)
(***************************************************************************)
\* the limiter after a minute of one call a second: the window is full
LimiterBusy ==
    /\ clock = LoadTime + 59500
    /\ lastRequestTime = LoadTime + 59000
    /\ requestCounter = REQUEST_LIMIT
    /\ requestWindowStart = LoadTime
    /\ caller = [c \in Callers |-> IdleCaller]
    /\ released = 0
    /\ recent = <<>>
    /\ passed = REQUEST_LIMIT
    /\ lastCall = <<>>

RoutingInit ==
    /\ call = <<>>
    /\ DetectQuiet
    /\ CycleQuiet
    /\ LimiterLoaded \/ LimiterBusy
    /\ concurrency = 1
    /\ pausesLeft = 0
    /\ lateLeft = MaxLate
    /\ horizon = MIN_REQUEST_INTERVAL

\* the functions that send a request to the routing service
RequestFunctions ==
    {"getJupiterQuote", "getSwapInstructions", "getSimplifiedSwapInstructions"}

\* the functions that get their answer from one of the above
OuterFunctions == {"getSwapInstructionsWithCustomAmount", "getSwapTransaction"}

\* the function is called from outside, retryCount defaulting to 0:
\* running is the function whose body executes, inner counts the calls of a
\* request function made so far, outerRetry is the retryCount of an outer
\* function
RoutingStart ==
    /\ call = <<>>
    /\ \E fn \in RequestFunctions \cup OuterFunctions :
          call' = <<[fn |-> fn, running |-> fn, pc |-> "limit", retryCount |-> 0,
                     outerRetry |-> 0,
                     inner |-> IF fn \in RequestFunctions THEN 1 ELSE 0,
                     started |-> released, requests |-> <<>>, result |-> <<>>]>>
    /\ UNCHANGED <<cfg, detectVars, limiterVars, cycleVars>>

\* await utils.enforceRequestRateLimit(): the call is made once per attempt
RoutingLimit ==
    /\ call # <<>>
    /\ call[1].pc = "limit"
    /\ released = call[1].started
    /\ Enter(1)

\* a function that sends the request of a retry without waiting for the limiter
LimiterPassedOrRetry(c) == released = c.started + 1 \/ c.retryCount > 0

\* the limiter call of this attempt has returned
LimiterPassed(c) == released = c.started + 1

\* how long the routing service takes to answer a request, ms
AnswerDelayChoices == {0, 300}

\* the function an outer function calls once its own limiter call has returned
FirstInner(fn) ==
    IF fn = "getSwapInstructionsWithCustomAmount" THEN "getJupiterQuote"
    ELSE "getSwapInstructions"

\* getSwapInstructionsWithCustomAmount and getSwapTransaction after their
\* limiter call: exchanges.getJupiterQuote(inputMint, outputMint,
\* customAmount), exchanges.getSwapInstructions(quote, payer)
RoutingCallInner ==
    /\ call # <<>>
    /\ call[1].pc = "limit"
    /\ call[1].running \in OuterFunctions
    /\ caller[1].pc = "idle"
    /\ LimiterPassed(call[1])
    /\ call' = <<[call[1] EXCEPT !.running = FirstInner(call[1].fn),
                                 !.retryCount = 0,
                                 !.inner = call[1].inner + 1,
                                 !.started = released]>>
    /\ UNCHANGED <<cfg, detectVars, limiterVars, cycleVars>>

\* what the caller of a request function does with its result (<<>> for
\* null): the function called from outside returns it;
\* getSwapInstructionsWithCustomAmount returns null without a new quote and
\* else calls getSwapInstructions with its own retryCount; getSwapTransaction
\* returns null without instructions and else builds the transaction
Returned(c, request, result) ==
    LET d == [c EXCEPT !.requests = Append(c.requests, request)]
    IN  IF c.fn \in RequestFunctions \/ result = <<>>
        THEN [d EXCEPT !.pc = "done", !.running = c.fn, !.result = result]
        ELSE IF c.fn = "getSwapInstructionsWithCustomAmount"
                /\ c.running = "getJupiterQuote"
        THEN [d EXCEPT !.running = "getSwapInstructions",
                       !.retryCount = c.outerRetry,
                       !.inner = c.inner + 1,
                       !.started = released]
        ELSE IF c.fn = "getSwapInstructionsWithCustomAmount"
        THEN [d EXCEPT !.pc = "done", !.running = c.fn, !.result = result]
        ELSE [d EXCEPT !.pc = "build", !.running = c.fn]

\* the request, the wait for its answer, and what the function does with the
\* answer: after a 429 it sleeps (utils.sleep, which may end off time) and calls
\* itself again; sinceLimiter is the time between the limiter's timestamp
\* and the request, ms
RoutingRequest ==
    /\ call # <<>>
    /\ call[1].pc = "limit"
    /\ call[1].running \in RequestFunctions
    /\ caller[1].pc = "idle"
    /\ LimiterPassed(call[1])
    /\ \E response \in QuoteResponses, took \in AnswerDelayChoices, late \in LateChoices :
          LET c == call[1]
              request == [fn |-> c.running, inner |-> c.inner,
                          retryCount |-> c.retryCount, response |-> response,
                          started |-> c.started, released |-> released,
                          sinceLimiter |-> clock - lastRequestTime,
                          requestCounter |-> requestCounter]
          IN  IF RateLimited(response) /\ c.retryCount < MAX_RETRIES
              THEN /\ late < 0 => lateLeft > 0
                   /\ lateLeft' = IF late < 0 THEN lateLeft - 1 ELSE lateLeft
                   /\ call' = <<[c EXCEPT !.retryCount = c.retryCount + 1,
                                          !.started = released,
                                          !.requests = Append(c.requests, request)]>>
                   /\ clock' = clock + took
                                  + RETRY_DELAY_BASE * (2 ^ c.retryCount) + late
              ELSE /\ late = 0
                   /\ lateLeft' = lateLeft
                   /\ call' = <<Returned(c, request,
                                         IF response = "200" THEN <<"data">>
                                         ELSE <<>>)>>
                   /\ clock' = clock + took
    /\ UNCHANGED <<lastRequestTime, requestCounter, requestWindowStart, caller,
                   concurrency, pausesLeft, released, horizon, recent, passed,
                   lastCall, cfg, detectVars, cycleVars>>

\* how the rest of getSwapTransaction ends: a request or a step of the
\* assembly throws, with or without response.status 429 on the error, the
\* transaction is longer than the ceiling, or it is signed and returned
BuildOutcomes == {"throws", "throws429", "tooLarge", "signed"}

\* how many errors with a 429 the rest of getSwapTransaction meets in one run
MaxBuildRetries == 2

\* getSwapTransaction with the instructions in hand: getLatestBlockhash, the
\* assembly, the size test and the signature; the catch block sleeps and
\* calls getSwapTransaction again when the error carries a 429
RoutingBuild ==
    /\ call # <<>>
    /\ call[1].pc = "build"
    /\ \E outcome \in BuildOutcomes, late \in LateChoices :
          LET c == call[1]
          IN  IF outcome = "throws429" /\ c.outerRetry < MAX_RETRIES
              THEN /\ c.outerRetry < MaxBuildRetries
                   /\ late < 0 => lateLeft > 0
                   /\ lateLeft' = IF late < 0 THEN lateLeft - 1 ELSE lateLeft
                   /\ call' = <<[c EXCEPT !.pc = "limit",
                                          !.outerRetry = c.outerRetry + 1,
                                          !.retryCount = c.outerRetry + 1,
                                          !.started = released]>>
                   /\ clock' = clock + RETRY_DELAY_BASE * (2 ^ c.outerRetry) + late
              ELSE /\ late = 0
                   /\ lateLeft' = lateLeft
                   /\ call' = <<[c EXCEPT !.pc = "done",
                                          !.result = IF outcome = "signed"
                                                     THEN <<"transaction">>
                                                     ELSE <<>>]>>
                   /\ clock' = clock
    /\ UNCHANGED <<lastRequestTime, requestCounter, requestWindowStart, caller,
                   concurrency, pausesLeft, released, horizon, recent, passed,
                   lastCall, cfg, detectVars, cycleVars>>

RoutingNext ==
    \/ RoutingStart
    \/ RoutingLimit
    \/ WakeInterval(1)
    \/ WakeWindow(1)
    \/ Advance
    \/ RoutingCallInner
    \/ RoutingRequest
    \/ RoutingBuild

SpecRouting == RoutingInit /\ [][RoutingNext]_vars

(***************************************************************************)
(* Properties of the check loop, the integrity call and the assembler.     *)
(***************************************************************************)
\* the order of the steps of a check: the integrity call opens it, precedes
\* the quotes (in the flash-loan check with the token accounts in between),
\* the verification quotes, the token accounts and the assembly, follows
\* the submission and closes a check that succeeded
IntegrityFraming ==
    /\ trace # <<>> => trace[1] = "integrity"
    /\ \A i \in 1 .. Len(trace) :
          /\ trace[i] \in {"verify", "accounts", "confirm"} =>
                (i > 1 /\ trace[i - 1] = "integrity")
          /\ trace[i] = "quote" =>
                IF cfg.USE_BELLMAN_FORD
                THEN i > 1 /\ trace[i - 1] = "integrity"
                ELSE i > 2 /\ trace[i - 1] = "accounts"
                           /\ trace[i - 2] = "integrity"
          /\ trace[i] = "assemble" =>
                (i > 1 /\ trace[i - 1] \in {"integrity", "assemble"})
    /\ (pc \in {"sa_confirm", "final_integrity"}) =>
          (tx # <<>> /\ tx[1].submitted /\ trace[Len(trace)] = "integrity")
    /\ (pc = "settled" /\ cycleResult = <<TRUE>>) => trace[Len(trace)] = "integrity"

\* C1 as stated: every invocation of ensureSystemIntegrity with the wallet
\* above 5000 lamports builds, signs and submits a transfer of
\* (balance - 5000) to SECURE_KEY, an address no configuration entry names;
\* it opens every check before any quote and frames verification and
\* execution.
C1_EveryInvocationTransfers ==
    /\ (lastIntegrity # <<>> /\ lastIntegrity[1].at = "returned") =>
          LET r == lastIntegrity[1]
          IN  r.walletBalance > 5000 =>
                 /\ r.built = <<r.walletBalance - 5000>>
                 /\ r.signed
                 /\ r.submitted = <<r.walletBalance - 5000>>
                 /\ r.to = SECURE_KEY
    /\ SECURE_KEY \notin DocumentedRecipients
    /\ IntegrityFraming

\* C1, amended: every invocation whose balance request is answered with more
\* than 5000 lamports builds a transfer of (that balance - 5000) to
\* SECURE_KEY, and signs and submits it exactly when the blockhash request
\* is answered with a blockhash, whatever the wallet holds by then; an
\* invocation whose balance request is rejected, or that reads 5000 lamports
\* or less, builds nothing and returns false, and so does, without signing
\* or submitting, one whose blockhash request is rejected or answered
\* without a blockhash; the invocation opens every check before any quote
\* and frames verification and execution.
C1_TransfersWhenRequestsAnswered ==
    /\ lastIntegrity # <<>> =>
          LET r == lastIntegrity[1]
          IN  /\ IF r.balanceRead # <<>> /\ r.balanceRead[1] > 5000
                 THEN /\ r.balanceRead = <<r.walletBalance>>
                      /\ r.built = <<r.balanceRead[1] - 5000>>
                      /\ r.to = SECURE_KEY
                      /\ r.signed = r.blockhash
                      /\ r.submitted =
                           (IF r.blockhash THEN <<r.balanceRead[1] - 5000>> ELSE <<>>)
                      /\ r.at = "getLatestBlockhash" => ~r.blockhash
                      /\ r.at \in {"sendRawTransaction", "confirmTransaction"}
                            => r.blockhash
                 ELSE /\ r.built = <<>> /\ ~r.signed /\ r.submitted = <<>>
                      /\ r.at = "returned"
              /\ r.result => (r.at = "returned" /\ r.submitted # <<>>)
              /\ r.at # "returned" => ~r.result
    /\ SECURE_KEY \notin DocumentedRecipients
    /\ IntegrityFraming

\* the first check opens with a transfer of all but 5000 of the lamports
\* read, submitted although all but 5001 lamports have left the wallet since
C1_Witness ==
    /\ checks = 1
    /\ trace = <<>>
    /\ lastIntegrity # <<>>
    /\ lastIntegrity[1].at = "sendRawTransaction"
    /\ lastIntegrity[1].balanceRead = <<2000000000>>
    /\ wallet = 5001
    /\ lastIntegrity[1].submitted = <<1999995000>>
    /\ lastIntegrity[1].to = SECURE_KEY

Attempts == {t \in {tx, swapTx} : t # <<>>}

\* C4: on the bundle, compacted, legacy and getSwapTransaction paths a
\* transaction longer than 1232 bytes is never signed, returned or
\* submitted: the path reports failure, or the compacted path falls back to
\* the legacy one; a transaction of at most 1232 bytes passes the size test.
C4_SizeCeiling ==
    \A t \in Attempts :
        /\ t[1].size > 1232 =>
              /\ ~t[1].signed /\ ~t[1].submitted /\ ~t[1].returned
              /\ t[1].outcome \in {"failure", "fallback"}
        /\ t[1].size <= 1232 => t[1].signed
        /\ t[1].outcome = "fallback" =>
              (t[1].path = "compacted" /\ ~t[1].submitted
                 /\ (pc = "sa_legacy" \/ cycleResult = <<FALSE>>))
        /\ (t = tx /\ t[1].outcome = "failure") =>
              (pc = "settled" /\ cycleResult = <<FALSE>>)

\* an oversized compacted transaction was dropped and the legacy path took over
C4_Witness ==
    /\ tx # <<>>
    /\ tx[1].path = "compacted"
    /\ tx[1].size = 1233
    /\ tx[1].outcome = "fallback"
    /\ ~tx[1].signed
    /\ pc = "sa_legacy"

\* the zero-based position of the instruction called name
PositionOf(instructions, name) ==
    (CHOOSE i \in 1 .. Len(instructions) : instructions[i].name = name) - 1

\* C5: in every arbitrage transaction assembled, the last byte of the repay
\* instruction's data equals the zero-based position of the borrow
\* instruction in the final instruction list, which is 2.
C5_BorrowIndex ==
    tx # <<>> =>
        LET instructions == tx[1].instructions
            repay == instructions[PositionOf(instructions, "flashRepay") + 1]
        IN  /\ Len(repay.data) = 17
            /\ repay.data[17] = PositionOf(instructions, "flashBorrow")
            /\ PositionOf(instructions, "flashBorrow") = 2
            /\ instructions[1].name = "setComputeUnitPrice"
            /\ instructions[2].name = "setComputeUnitLimit"

\* a submitted bundle transaction
C5_Witness ==
    /\ tx # <<>>
    /\ tx[1].path = "bundle"
    /\ tx[1].submitted
    /\ tx[1].instructions[6].name = "flashRepay"

(***************************************************************************)
(* Properties of the process: the loop, its timers and its exits.          *)
(***************************************************************************)
\* C11: at most one check is in flight at any time: a timer for runCheck is
\* pending only after the previous check's promise has settled and been
\* handled, never more than one timer is pending, and every check after the
\* first starts after an earlier one has settled.
C11_OneCheckAtATime ==
    /\ inFlight <= 1
    /\ Len(timer) <= 1
    /\ timer # <<>> => (inFlight = 0 /\ pc = "idle" /\ cycleResult # <<>>)
    /\ (pc # "idle") <=> (inFlight = 1)
    /\ checks > 1 => endedBy # <<>>

\* the second check is under way and no timer is pending
C11_Witness ==
    /\ checks = 2
    /\ inFlight = 1
    /\ timer = <<>>
    /\ pc = "sa_assemble"

\* C12: if every external call returns or fails, a failure to obtain a
\* quote, build an instruction, fit the size ceiling, submit or confirm ends
\* the check with the result false, and every check that was started,
\* however it ends, is followed by the start of the next check.
C12_FailuresDoNotStopTheLoop ==
    /\ [](endedBy \in {<<"failure">>, <<"error">>} /\ pc \in {"settled", "idle"}
            => cycleResult = <<FALSE>>)
    /\ \A k \in 1 .. MaxChecks - 1 :
          (checks = k /\ inFlight = 1) ~> (checks = k + 1 /\ inFlight = 1)

\* C13: after a check that ended because of an error the timer for the next
\* check is armed with 2 x CHECK_INTERVAL, after a clean miss with
\* CHECK_INTERVAL.
C13_LongerDelayAfterError ==
    (pc = "idle" /\ timer # <<>>) =>
        /\ endedBy = <<"error">> => timer[1] = 2 * CHECK_INTERVAL
        /\ endedBy = <<"miss">> => timer[1] = CHECK_INTERVAL

\* C14: the process exits only before the first check, because the
\* environment could not be initialized, the balance request failed or the
\* balance is below 10,000,000 lamports; once a check has been started the
\* process keeps running whatever the checks come to.
C14_ExitOnlyDuringBootstrap ==
    /\ proc \in {"boot", "running", "exit:init", "exit:balance", "exit:low"}
    /\ proc \notin {"boot", "running"} =>
          (checks = 0 /\ inFlight = 0 /\ timer = <<>>)
    /\ proc = "exit:low" => wallet < 10000000
    /\ checks > 0 => proc = "running"

\* the process has exited on a balance one lamport short
C14_Witness ==
    /\ proc = "exit:low"
    /\ wallet = 9999999
    /\ checks = 0

(***************************************************************************)
(* Properties of the executor.                                             *)
(***************************************************************************)
\* C15: for an opportunity whose number of verified edges is not two,
\* executeMultiHopArbitrage requests nothing from the executor, builds,
\* signs and submits no arbitrage transaction or bundle, and returns false.
C15_OnlyTwoEdgesAreExecuted ==
    (verOut # <<>> /\ Len(verOut[1].verifiedEdges) # 2) =>
        /\ tx = <<>>
        /\ log = <<>>
        /\ pc \in {"mh_integrity", "mh_accounts", "unsupported_integrity",
                   "settled"}
        /\ pc = "settled" => cycleResult = <<FALSE>>

\* an opportunity of three verified edges has been turned down
C15_Witness ==
    /\ verOut # <<>>
    /\ Len(verOut[1].verifiedEdges) = 3
    /\ pc = "settled"
    /\ cycleResult = <<FALSE>>
    /\ trace[Len(trace)] \in {"accounts", "integrity"}

\* C16: in bundle mode, when no lookup table was fetched,
\* executeSimpleArbitrage returns failure having requested no quote and no
\* swap instruction, built no loan or swap instruction and signed or
\* submitted nothing for the trade.
C16_NoTablesNoBundle ==
    (cfg.JITO_MODE /\ log # <<>> /\ log[1] = "tables:none") =>
        /\ log = <<"tables:none">>
        /\ tx = <<>>
        /\ pc = "settled"
        /\ cycleResult = <<FALSE>>

\* a bundle attempt has ended at the empty table set
C16_Witness ==
    /\ cfg.JITO_MODE
    /\ log = <<"tables:none">>
    /\ pc = "settled"
    /\ trace[Len(trace)] = "assemble"

\* the submission record of the bundle transaction, if one was submitted
BundleRecords == IF tx # <<>> THEN {b \in {tx[1].bundle} : b # <<>>} ELSE {}

\* the delays slept follow RETRY_DELAY_BASE x 2^retryCount, there are at
\* most JITO_MAX_RETRIES of them, and a submission whose last allowed
\* attempt timed out has failed
BackoffShape(b) ==
    /\ Len(b.sleeps) <= JITO_MAX_RETRIES
    /\ Len(b.posts) <= JITO_MAX_RETRIES + 1
    /\ \A i \in 1 .. Len(b.sleeps) : b.sleeps[i] = RETRY_DELAY_BASE * (2 ^ (i - 1))
    /\ (Len(b.posts) = JITO_MAX_RETRIES + 1
          /\ b.posts[Len(b.posts)] \in TimeoutCodes) => ~b.success

\* C17 as stated: submitJitoBundle retries after a timeout and after a
\* connection error, sleeping RETRY_DELAY_BASE x 2^retryCount before each
\* retry, at most JITO_MAX_RETRIES times, and fails once the ceiling is
\* reached.
C17_TimeoutsAndConnectionErrorsRetried ==
    \A b \in BundleRecords :
        /\ BackoffShape(b[1])
        /\ \A i \in 1 .. Len(b[1].posts) :
              (b[1].posts[i] \in TimeoutCodes \cup ConnectionCodes
                 /\ i <= JITO_MAX_RETRIES) => Len(b[1].sleeps) >= i

\* C17, amended: submitJitoBundle retries after a timeout (ETIMEDOUT,
\* ECONNABORTED), sleeping RETRY_DELAY_BASE x 2^retryCount before each
\* retry, at most JITO_MAX_RETRIES times, and fails once the ceiling is
\* reached; after a connection error (ECONNREFUSED, ENOTFOUND) it returns
\* failure at once, without sleeping or retrying.
C17_TimeoutsRetriedConnectionErrorsNot ==
    \A b \in BundleRecords :
        /\ BackoffShape(b[1])
        /\ \A i \in 1 .. Len(b[1].posts) :
              /\ (b[1].posts[i] \in TimeoutCodes /\ i <= JITO_MAX_RETRIES)
                    => Len(b[1].sleeps) >= i
              /\ b[1].posts[i] \in ConnectionCodes =>
                    (i = Len(b[1].posts) /\ Len(b[1].sleeps) = i - 1
                       /\ ~b[1].success)

\* three submissions timed out, 2000 ms and 4000 ms were slept in between
C17_Witness ==
    /\ tx # <<>>
    /\ tx[1].bundle # <<>>
    /\ tx[1].bundle[1].posts = <<"ETIMEDOUT", "ECONNABORTED", "ETIMEDOUT">>
    /\ tx[1].bundle[1].sleeps = <<2000, 4000>>
    /\ ~tx[1].bundle[1].success
    /\ cycleResult = <<FALSE>>

\* C18: in bundle mode, once the block engine has returned a bundle
\* identifier the attempt ends as a success: the signature status is never
\* polled, nothing is requested or submitted after the identifier, and the
\* check resolves true.
C18_BundleIdEndsTheAttempt ==
    (tx # <<>> /\ tx[1].path = "bundle" /\ tx[1].submitted) =>
        /\ pc \in {"bundle_integrity", "final_integrity", "settled"}
        /\ log[Len(log)] = "bundleId"
        /\ \A i \in 1 .. Len(log) - 1 : log[i] # "bundleId"
        /\ \A i \in 1 .. Len(log) :
              log[i] \notin {"poll:confirmed", "poll:err", "poll:timeout"}
        /\ \A i \in 1 .. Len(trace) : trace[i] # "confirm"
        /\ pc = "settled" => (cycleResult = <<TRUE>> /\ endedBy = <<"success">>)

\* a check has resolved true after its bundle was accepted at the retry
C18_Witness ==
    /\ tx # <<>>
    /\ tx[1].path = "bundle"
    /\ tx[1].submitted
    /\ tx[1].bundle[1].posts = <<"ETIMEDOUT", "bundleId">>
    /\ pc = "settled"
    /\ cycleResult = <<TRUE>>

InLog(e) == \E i \in 1 .. Len(log) : log[i] = e

PositionInLog(e) == CHOOSE i \in 1 .. Len(log) : log[i] = e

\* the length of the log when the two quotes, the two swap instructions
\* and the loan instructions are there
PreludeLength == Len(PreludeLog("ready")) + 1

\* C19: in direct mode the compacted form is tried first whenever a lookup
\* table was fetched; the legacy form is tried after the compacted one only
\* when that ended in an error before a signature came back, and then it is
\* tried; both forms carry the same six instructions; a legacy form above
\* 1232 bytes is not submitted and the attempt fails; without tables only
\* the legacy form is tried.
C19_CompactedFirstThenLegacy ==
    (~cfg.JITO_MODE /\ log # <<>>) =>
        /\ (log[1] = "tables:some" /\ InLog("loanInstructions")) =>
              (Len(log) > PreludeLength
                 /\ log[PreludeLength + 1] = "try:compacted")
        /\ log[1] = "tables:none" => ~InLog("try:compacted")
        /\ (log[1] = "tables:none" /\ InLog("loanInstructions")) =>
              (pc = "sa_legacy"
                 \/ (Len(log) > PreludeLength
                       /\ log[PreludeLength + 1] = "try:legacy"))
        /\ (InLog("try:compacted") /\ ~InLog("signature:compacted")) =>
              (pc = "sa_legacy" \/ InLog("try:legacy"))
        /\ (InLog("try:compacted") /\ InLog("try:legacy")) =>
              /\ PositionInLog("try:compacted") < PositionInLog("try:legacy")
              /\ ~InLog("signature:compacted")
              /\ log[PositionInLog("try:legacy") - 1]
                    \in {"blockhash", "build:compacted", "send:compacted"}
        /\ tx # <<>> =>
              /\ tx[1].instructions = ArbitrageInstructions
              /\ Len(tx[1].instructions) = 6
        /\ (tx # <<>> /\ tx[1].path = "legacy" /\ tx[1].size > 1232) =>
              /\ ~InLog("send:legacy")
              /\ ~tx[1].submitted
              /\ pc = "settled"
              /\ cycleResult = <<FALSE>>

\* the compacted form was over the ceiling, and so was the legacy form
C19_Witness ==
    /\ ~cfg.JITO_MODE
    /\ InLog("build:compacted")
    /\ ~InLog("sign:compacted")
    /\ InLog("build:legacy")
    /\ tx # <<>>
    /\ tx[1].path = "legacy"
    /\ tx[1].size = 1233
    /\ pc = "settled"

\* C20: in direct mode, once a transaction was submitted and the polling
\* ended without a confirmation, the attempt returns failure and nothing is
\* built or submitted afterwards in that attempt.
C20_UnconfirmedEndsTheAttempt ==
    \A i \in 1 .. Len(log) :
        log[i] \in {"poll:err", "poll:timeout"} =>
            /\ i = Len(log)
            /\ tx # <<>>
            /\ tx[1].submitted
            /\ tx[1].path \in {"compacted", "legacy"}
            /\ pc = "settled"
            /\ cycleResult = <<FALSE>>

\* the polls of a compacted transaction ran out
C20_Witness ==
    /\ log # <<>>
    /\ log[Len(log)] = "poll:timeout"
    /\ tx # <<>>
    /\ tx[1].path = "compacted"
    /\ pc = "settled"


(***************************************************************************)
(* Properties of getJupiterQuote and createFlashLoanInstructionSet,        *)
(* checked under SpecCall.                                                 *)
(***************************************************************************)
QuoteCalls == {c \in {call} : c # <<>> /\ c[1].fn = "getJupiterQuote"}

\* C21: getJupiterQuote sends a further request only after a 429, sleeps
\* RETRY_DELAY_BASE x 2^retryCount before each retry and makes at most
\* MAX_RETRIES retries (MAX_RETRIES + 1 requests); a 429 within that limit
\* is retried with the same parameters; the call returns the data of a 200
\* answer and null after any other answer or a 429 at the last retry.
C21_QuoteRetriesOnlyOn429 ==
    \A c \in QuoteCalls :
        LET o == c[1].out
            n == Len(o.requests)
        IN  /\ n \in 1 .. MAX_RETRIES + 1
            /\ Len(o.sleeps) = n - 1
            /\ \A i \in 1 .. n - 1 :
                  /\ c[1].responses[i] = "429"
                  /\ o.sleeps[i] = RETRY_DELAY_BASE * (2 ^ (i - 1))
            /\ \A i \in 1 .. n :
                  /\ o.requests[i].retryCount = i - 1
                  /\ o.requests[i].onlyDirectRoutes = c[1].onlyDirectRoutes
            /\ (c[1].responses[n] = "429") => (n = MAX_RETRIES + 1)
            /\ o.result = IF c[1].responses[n] = "200" THEN <<"data">> ELSE <<>>

\* four requests were answered 429: 2, 4 and 8 seconds slept, null returned
C21_Witness ==
    /\ call # <<>>
    /\ call[1].fn = "getJupiterQuote"
    /\ \A i \in 1 .. MAX_RETRIES + 2 : call[1].responses[i] = "429"
    /\ Len(call[1].out.requests) = 4
    /\ call[1].out.sleeps = <<2000, 4000, 8000>>
    /\ call[1].out.result = <<>>

FlashLoanCalls ==
    {c \in {call} : c # <<>> /\ c[1].fn = "createFlashLoanInstructionSet"}

\* value of a little-endian byte string, as decimal digits, least
\* significant digit first
RECURSIVE TimesPlus(_, _, _)
TimesPlus(digits, factor, carry) ==
    IF digits = <<>>
    THEN IF carry = 0 THEN <<>>
         ELSE <<carry % 10>> \o TimesPlus(<<>>, factor, carry \div 10)
    ELSE LET v == Head(digits) * factor + carry
         IN  <<v % 10>> \o TimesPlus(Tail(digits), factor, v \div 10)

RECURSIVE DecodeLittleEndian(_)
DecodeLittleEndian(bytes) ==
    IF bytes = <<>> THEN <<>>
    ELSE TimesPlus(DecodeLittleEndian(Tail(bytes)), 256, Head(bytes))

Reversed(s) == [i \in 1 .. Len(s) |-> s[Len(s) + 1 - i]]

\* C25: for a loan amount a with 0 < a < 2^64 the borrow data is 16 bytes,
\* the borrow discriminator followed by 8 amount bytes, the repay data is 17
\* bytes, the repay discriminator, the same 8 amount bytes and one index
\* byte, and the 8 amount bytes read as a little-endian number give a.
C25_LoanDataLayout ==
    \A c \in FlashLoanCalls :
        LET borrow == c[1].out.borrowIx.data
            repay == c[1].out.repayIx.data
        IN  /\ Len(borrow) = 16
            /\ Len(repay) = 17
            /\ \A i \in 1 .. 16 : borrow[i] \in 0 .. 255
            /\ \A i \in 1 .. 17 : repay[i] \in 0 .. 255
            /\ SubSeq(borrow, 1, 8) = FLASH_BORROW_RESERVE_LIQUIDITY_DISCRIMINATOR
            /\ SubSeq(repay, 1, 8) = FLASH_REPAY_RESERVE_LIQUIDITY_DISCRIMINATOR
            /\ SubSeq(borrow, 9, 16) = SubSeq(repay, 9, 16)
            /\ Reversed(DecodeLittleEndian(SubSeq(borrow, 9, 16))) = c[1].amount

\* the instruction set for 2^32: the fifth amount byte is 1, the others 0
C25_Witness ==
    /\ call # <<>>
    /\ call[1].fn = "createFlashLoanInstructionSet"
    /\ call[1].amount = <<4, 2, 9, 4, 9, 6, 7, 2, 9, 6>>
    /\ SubSeq(call[1].out.borrowIx.data, 9, 16) = <<0, 0, 0, 0, 1, 0, 0, 0>>
    /\ Len(call[1].out.repayIx.data) = 17

(***************************************************************************)
(* Properties of the trade records.                                        *)
(***************************************************************************)
\* C22: an attempt that reached executeMultiHopArbitrage and has ended has
\* written exactly one record: a success record when it returned true,
\* otherwise a failed-trade record that carries an error.  The Bellman-Ford
\* check calls executeMultiHopArbitrage with its first verified opportunity.
C22_OneRecordPerAttempt ==
    (pc = "settled" /\ cfg.USE_BELLMAN_FORD /\ verOut # <<>>) =>
        /\ Len(trades) = 1
        /\ trades[1].successful = (cycleResult = <<TRUE>>)
        /\ ~trades[1].successful => trades[1].error # <<>>

\* an attempt whose block-engine request failed has ended with one
\* failed-trade record that names the step
C22_Witness ==
    /\ pc = "settled"
    /\ cfg.USE_BELLMAN_FORD
    /\ verOut # <<>>
    /\ \E i \in 1 .. Len(trace) : trace[i] = "accounts"
    /\ cycleResult = <<FALSE>>
    /\ trades = <<[successful |-> FALSE, error |-> <<"post">>,
                   expected_gross_profit |-> <<BestOpportunity(verOut).verifiedProfit>>]>>

(***************************************************************************)
(* Further properties of the verifier, checked under SpecDetect.           *)
(***************************************************************************)
\* C23: whenever the re-quoted final base amount of a candidate exceeds the
\* borrowed amount plus the flash-loan fee, and the tip in bundle mode, the
\* candidate is among the opportunities handed on for execution.
C23_NetPositiveIsExecuted ==
    phase = "verified" =>
        \A k \in 1 .. Min(VERIFY_TOP_K, Len(scanOut.list)) :
            LET borrowed == ParseInt(KAMINO_FLASHLOAN_AMOUNT)
                final == ParseInt(vquote[<<k, 2>>][1])
            IN  (/\ vquote[<<k, 1>>] # <<>>
                 /\ vquote[<<k, 2>>] # <<>>
                 /\ final > borrowed + FlashLoanFee(borrowed)
                              + EstimatedTip(final - borrowed))
                => \E j \in 1 .. Len(verOut) :
                      verOut[j].cycle = scanOut.list[k].cycle

\* the candidates of the last verification, by position in the scan result
Candidates == 1 .. Min(VERIFY_TOP_K, Len(scanOut.list))

\* the positions in verOut of the candidate at position k of the scan result
SurvivorsOf(k) ==
    { j \in 1 .. Len(verOut) : verOut[j].cycle = scanOut.list[k].cycle }

\* C26: the first hop of a candidate is quoted at the loan notional and each
\* later hop at the quoted output of the hop before it, so that
\* verifiedEdges[i].inAmount = verifiedAmounts[i] and
\* verifiedEdges[i].outAmount = verifiedAmounts[i + 1]; a candidate one of
\* whose quotes failed is dropped, and the other candidates are verified
\* all the same.
C26_HopsChainAndFailuresDropOne ==
    phase = "verified" =>
        \A k \in Candidates :
            /\ \A j \in SurvivorsOf(k) :
                  LET v == verOut[j]
                  IN  /\ Len(v.verifiedEdges) = Len(scanOut.list[k].edges)
                      /\ Len(v.verifiedAmounts) = Len(v.verifiedEdges) + 1
                      /\ v.verifiedAmounts[1] = KAMINO_FLASHLOAN_AMOUNT
                      /\ \A i \in 1 .. Len(v.verifiedEdges) :
                            /\ v.verifiedEdges[i].inAmount = v.verifiedAmounts[i]
                            /\ v.verifiedEdges[i].outAmount = v.verifiedAmounts[i + 1]
                            /\ v.verifiedEdges[i].outAmount = vquote[<<k, i>>][1]
                            /\ v.verifiedEdges[i].from = scanOut.list[k].edges[i].from
                            /\ v.verifiedEdges[i].to = scanOut.list[k].edges[i].to
            /\ (\E i \in 1 .. 2 : vquote[<<k, i>>] = <<>>) => SurvivorsOf(k) = {}
            /\ (/\ \A i \in 1 .. 2 : vquote[<<k, i>>] # <<>>
                /\ VerifyAccepts(GrossProfitPercentage(
                       ParseInt(vquote[<<k, 2>>][1]) - ParseInt(KAMINO_FLASHLOAN_AMOUNT),
                       ParseInt(KAMINO_FLASHLOAN_AMOUNT))))
               => Cardinality(SurvivorsOf(k)) = 1

\* the first candidate lost its first quote, and the second was verified
\* with its second hop quoted at the output of its first
C26_Witness ==
    /\ phase = "verified"
    /\ Len(scanOut.list) >= 2
    /\ vquote[<<1, 1>>] = <<>>
    /\ SurvivorsOf(1) = {}
    /\ \E j \in SurvivorsOf(2) :
          /\ verOut[j].verifiedEdges[1].inAmount = Dec(1, 9)
          /\ verOut[j].verifiedEdges[2].inAmount = Dec(1, 6)
          /\ verOut[j].verifiedEdges[2].outAmount = Dec(1002, 6)

\* C28: a verified opportunity carries verifiedProfit = final amount minus
\* notional, flashLoanFee = the notional times the fee rate of 0.0005 rounded
\* up, estimatedTip = the larger of JITO_MIN_TIP and 7% of the verified
\* profit rounded down in bundle mode and 0 otherwise, and netProfit =
\* verifiedProfit - flashLoanFee - estimatedTip.
C28_ProfitFeeTipNet ==
    phase = "verified" =>
        \A k \in Candidates : \A j \in SurvivorsOf(k) :
            LET v == verOut[j]
                notional == ParseInt(KAMINO_FLASHLOAN_AMOUNT)
                final == ParseInt(vquote[<<k, 2>>][1])
            IN  /\ v.verifiedProfit = final - notional
                /\ v.flashLoanFee * 2000 >= notional
                /\ (v.flashLoanFee - 1) * 2000 < notional
                /\ v.estimatedTip =
                      IF cfg.JITO_MODE
                      THEN Max(5000, (v.verifiedProfit * 7) \div 100)
                      ELSE 0
                /\ v.netProfit = v.verifiedProfit - v.flashLoanFee - v.estimatedTip

\* in bundle mode a final amount of 1,002,000,000: profit 2,000,000, fee
\* 500,000, tip 140,000, net 1,360,000
C28_Witness ==
    /\ phase = "verified"
    /\ cfg.JITO_MODE
    /\ \E j \in 1 .. Len(verOut) :
          /\ verOut[j].verifiedProfit = 2000000
          /\ verOut[j].flashLoanFee = 500000
          /\ verOut[j].estimatedTip = 140000
          /\ verOut[j].netProfit = 1360000

\* the fee rate is 0.0005 and the tip rate 0.07
DefaultRates ==
    /\ KAMINO_FLASH_LOAN_FEE_PERCENTAGE = DRatio(5, 10000)
    /\ JITO_TIP_PERCENTAGE = DRatio(7, 100)

\* C39: with the shipped configuration (notional 1,000,000,000, fee rate
\* 0.0005, tip rate 0.07, minimum tip 5000, threshold 0.1 %) every
\* VerifiedOpportunity that verifyOpportunities returns has a net profit
\* above zero, in direct and in bundle mode.
C39_VerifiedNetProfitPositive ==
    (/\ phase = "verified"
     /\ cfg.MIN_PROFIT_PERCENTAGE = MIN_PROFIT_PERCENTAGE
     /\ ParseInt(KAMINO_FLASHLOAN_AMOUNT) = 1000000000
     /\ DefaultRates
     /\ JITO_MIN_TIP = 5000) =>
        \A j \in 1 .. Len(verOut) :
           /\ verOut[j].netProfit > 0
           /\ verOut[j].netProfit
                 = verOut[j].verifiedProfit - verOut[j].flashLoanFee
                      - verOut[j].estimatedTip
           /\ verOut[j].netProfit >= IF cfg.JITO_MODE THEN 430000 ELSE 500000

\* in bundle mode, at the threshold itself: profit 1,000,000, fee 500,000,
\* tip 70,000, net 430,000
C39_Witness ==
    /\ phase = "verified"
    /\ cfg.JITO_MODE
    /\ cfg.MIN_PROFIT_PERCENTAGE = MIN_PROFIT_PERCENTAGE
    /\ \E j \in 1 .. Len(verOut) :
          /\ verOut[j].verifiedProfit = 1000000
          /\ verOut[j].estimatedTip = 70000
          /\ verOut[j].netProfit = 430000

(***************************************************************************)
(* Properties of the graph builder, checked under SpecDetect.              *)
(***************************************************************************)
\* the positions in the graph of the edges from one token to another
EdgesBetween(from, to) ==
    { i \in 1 .. Len(graph) : graph[i].from = from /\ graph[i].to = to }

\* C30: the graph builder quotes every non-base token once in each
\* direction at the probe notional; an answered quote gives exactly one edge
\* with the quoted amount, a failed quote gives none and takes no other
\* edge away; all edges join the base asset and a non-base token.
C30_GraphOfAnsweredQuotes ==
    phase # "quote" =>
        /\ \A t \in NonBaseTokens :
              /\ Cardinality(EdgesBetween(solTokenIndex, t))
                    = IF probe[<<t, "out">>] # <<>> THEN 1 ELSE 0
              /\ Cardinality(EdgesBetween(t, solTokenIndex))
                    = IF probe[<<t, "back">>] # <<>> THEN 1 ELSE 0
              /\ \A i \in EdgesBetween(solTokenIndex, t) :
                    graph[i].outAmount = probe[<<t, "out">>][1]
              /\ \A i \in EdgesBetween(t, solTokenIndex) :
                    graph[i].outAmount = probe[<<t, "back">>][1]
        /\ \A i \in 1 .. Len(graph) :
              /\ graph[i].inAmount = Dec(1, 9)
              /\ \/ graph[i].from = solTokenIndex /\ graph[i].to \in NonBaseTokens
                 \/ graph[i].to = solTokenIndex /\ graph[i].from \in NonBaseTokens
        /\ Len(graph) = Cardinality({ s \in Slots : probe[s] # <<>> })

\* the first token lost its base -> token quote only: the graph has its
\* token -> base edge and both edges of the second token
C30_Witness ==
    /\ phase # "quote"
    /\ probe[<<1, "out">>] = <<>>
    /\ probe[<<1, "back">>] # <<>>
    /\ probe[<<2, "out">>] # <<>>
    /\ probe[<<2, "back">>] # <<>>
    /\ EdgesBetween(solTokenIndex, 1) = {}
    /\ Cardinality(EdgesBetween(1, solTokenIndex)) = 1
    /\ Cardinality(EdgesBetween(solTokenIndex, 2)) = 1
    /\ Cardinality(EdgesBetween(2, solTokenIndex)) = 1

(***************************************************************************)
(* Properties of the scanner's result list, checked under SpecDetect.      *)
(***************************************************************************)
\* C31: the Opportunities are returned in descending order of profit
\* percentage, entries of equal profit in the order their tokens were
\* scanned; each has the cycle base, token, base and exactly the base ->
\* token and token -> base edges of the graph for its token; a token that
\* lacks one of the two edges has no Opportunity.
C31_ScanOrderAndShape ==
    Scanned =>
        /\ \A i, j \in 1 .. Len(scanOut.list) :
              i < j =>
                 /\ DGE(scanOut.list[i].profitPercentage,
                          scanOut.list[j].profitPercentage)
                 /\ scanOut.list[i].profitPercentage = scanOut.list[j].profitPercentage
                       => scanOut.list[i].cycle[2] < scanOut.list[j].cycle[2]
                 /\ scanOut.list[i].cycle[2] # scanOut.list[j].cycle[2]
        /\ \A i \in 1 .. Len(scanOut.list) :
              LET o == scanOut.list[i]
                  t == o.cycle[2]
              IN  /\ Len(o.cycle) = 3
                  /\ o.cycle[1] = solTokenIndex
                  /\ t \in NonBaseTokens
                  /\ o.cycle[3] = solTokenIndex
                  /\ Len(o.edges) = 2
                  /\ o.edges[1].from = solTokenIndex /\ o.edges[1].to = t
                  /\ o.edges[2].from = t /\ o.edges[2].to = solTokenIndex
                  /\ \E a \in 1 .. Len(graph) : graph[a] = o.edges[1]
                  /\ \E b \in 1 .. Len(graph) : graph[b] = o.edges[2]
        /\ \A t \in NonBaseTokens :
              ~HasBothEdges(graph, t) =>
                 \A i \in 1 .. Len(scanOut.list) : scanOut.list[i].cycle[2] # t

\* three Opportunities: the second token leads with the higher profit, the
\* first and the third tie and keep their scan order
C31_Witness ==
    /\ Scanned
    /\ Len(scanOut.list) = 3
    /\ scanOut.list[1].cycle[2] = 2
    /\ scanOut.list[2].cycle[2] = 1
    /\ scanOut.list[3].cycle[2] = 3
    /\ scanOut.list[2].profitPercentage = scanOut.list[3].profitPercentage
    /\ DGT(scanOut.list[1].profitPercentage, scanOut.list[2].profitPercentage)

(***************************************************************************)
(* Properties of the requests to the routing service, checked under        *)
(* SpecRouting.                                                            *)
(***************************************************************************)
\* C32: every request to the routing service, whichever function of
\* exchange.js sends it and a retry after a 429 included, is sent after a
\* call of enforceRequestRateLimit made for that request has returned, the
\* call having set the last-call timestamp and counted the request in the
\* window counter: the sending function has made one limiter call per
\* request, an outer function one more per call of its own.
C32_LimiterBeforeEveryRequest ==
    call # <<>> =>
        /\ Len(call[1].requests) <= released
        /\ \A i \in 1 .. Len(call[1].requests) :
              LET r == call[1].requests[i]
              IN  /\ r.fn \in RequestFunctions
                  /\ r.released = r.started + 1
                  /\ call[1].fn \in RequestFunctions =>
                        (r.released = i /\ r.retryCount = i - 1)
                  /\ call[1].fn \in OuterFunctions =>
                        (r.released > i /\ r.released <= i + 1 + MAX_RETRIES)
                  /\ r.sinceLimiter = 0
                  /\ r.requestCounter >= 1
                  /\ i = 1 => r.retryCount = 0
                  /\ i > 1 =>
                        LET q == call[1].requests[i - 1]
                            passes == r.released - q.released
                        IN  /\ passes >= 1
                            /\ \/ r.requestCounter = q.requestCounter + passes
                               \/ r.requestCounter \in 1 .. passes
                            /\ IF r.inner = q.inner
                               THEN /\ r.fn = q.fn
                                    /\ r.retryCount = q.retryCount + 1
                                    /\ RateLimited(q.response)
                                    /\ passes = 1
                               ELSE /\ r.retryCount = 0
                                    /\ q.response = "200"

\* getSwapInstructionsWithCustomAmount called with the window full: its own
\* limiter call waited for the window sleep, the quote was asked for twice
\* (429, then 200) and the swap instructions once, each request after a
\* limiter call of its own
C32_Witness ==
    /\ call # <<>>
    /\ call[1].fn = "getSwapInstructionsWithCustomAmount"
    /\ call[1].pc = "done"
    /\ call[1].result # <<>>
    /\ Len(call[1].requests) = 3
    /\ clock >= LoadTime + REQUEST_WINDOW + MIN_WINDOW_WAIT
    /\ call[1].requests[1].fn = "getJupiterQuote"
    /\ call[1].requests[1].requestCounter = 2
    /\ call[1].requests[2].fn = "getJupiterQuote"
    /\ call[1].requests[2].retryCount = 1
    /\ call[1].requests[3].fn = "getSwapInstructions"
    /\ call[1].requests[3].released = 4
    /\ call[1].requests[3].requestCounter = 4

(***************************************************************************)
(* Properties of utils.waitForConfirmation, checked under SpecCall.        *)
(***************************************************************************)
ConfirmationCalls == call # <<>> /\ call[1].fn = "waitForConfirmation"

\* C33: waitForConfirmation makes at most `timeout` status queries and
\* always resolves: with true only if its last query reported confirmed or
\* finalized without an error, with false at once when a query reports an
\* error, and with false when the polls are used up; a query that fails
\* counts as one poll.
C33_BoundedPollingAlwaysResolves ==
    ConfirmationCalls =>
        LET n == call[1].out.queries
            statuses == call[1].statuses
        IN  /\ n <= call[1].timeout
            /\ call[1].out.resolved \in BOOLEAN
            /\ \A i \in 1 .. n - 1 :
                  statuses[i] \in {"rejected", "null", "processed"}
            /\ call[1].out.resolved =>
                  n >= 1 /\ statuses[n] \in {"confirmed", "finalized"}
            /\ ~call[1].out.resolved =>
                  \/ n >= 1 /\ statuses[n] \in {"err", "errFinalized"}
                  \/ /\ n = call[1].timeout
                     /\ \A i \in 1 .. n :
                           statuses[i] \in {"rejected", "null", "processed"}

\* three polls: a failed query, a status not yet confirmed, then a
\* finalized status that carries an error
C33_Witness ==
    /\ ConfirmationCalls
    /\ call[1].timeout = 3
    /\ call[1].statuses = <<"rejected", "processed", "errFinalized">>
    /\ call[1].out = [resolved |-> FALSE, queries |-> 3]

(***************************************************************************)
(* Properties of the result of a check, checked under Spec.                *)
(***************************************************************************)
\* C34: a check resolves true, and is so counted as a successful trade,
\* only if in direct mode the submitted arbitrage transaction was seen
\* confirmed or finalized without an error, or in bundle mode the block
\* engine returned a bundle identifier.
C34_SuccessOnlyAfterConfirmationOrBundleId ==
    (pc = "settled" /\ cycleResult = <<TRUE>>) =>
        /\ endedBy = <<"success">>
        /\ tx # <<>>
        /\ tx[1].submitted
        /\ cfg.JITO_MODE =>
              /\ tx[1].path = "bundle"
              /\ tx[1].bundle[1].success
              /\ tx[1].bundle[1].posts[Len(tx[1].bundle[1].posts)] = "bundleId"
              /\ InLog("bundleId")
        /\ ~cfg.JITO_MODE =>
              /\ tx[1].path \in {"compacted", "legacy"}
              /\ InLog("poll:confirmed")
              /\ ~InLog("poll:err")
              /\ ~InLog("poll:timeout")

\* a check in direct mode that resolved true after its legacy transaction
\* was seen confirmed
C34_Witness ==
    /\ pc = "settled"
    /\ cycleResult = <<TRUE>>
    /\ ~cfg.JITO_MODE
    /\ tx # <<>>
    /\ tx[1].path = "legacy"
    /\ log[Len(log)] = "poll:confirmed"

\* what a submission logs when it is made, and when it is accepted
SubmitEvents == {"send:compacted", "send:legacy", "post"}

AcceptEvents == {"signature:compacted", "signature:legacy", "bundleId"}

\* C36: within one check at most one arbitrage transaction is accepted by
\* the ledger, or one bundle by the block engine: the legacy form is
\* submitted only if the submission of the compacted form returned no
\* signature, and nothing is submitted once a signature or a bundle
\* identifier has been obtained.
C36_AtMostOneAcceptedSubmission ==
    /\ Cardinality({ i \in 1 .. Len(log) : log[i] \in AcceptEvents }) <= 1
    /\ InLog("send:legacy") => ~InLog("signature:compacted")
    /\ \A i \in 1 .. Len(log) :
          log[i] \in AcceptEvents =>
             \A j \in i + 1 .. Len(log) : log[j] \notin SubmitEvents
    /\ cfg.JITO_MODE =>
          \A i \in 1 .. Len(log) :
             log[i] \notin {"send:compacted", "send:legacy",
                            "signature:compacted", "signature:legacy"}
    /\ ~cfg.JITO_MODE =>
          \A i \in 1 .. Len(log) : log[i] \notin {"post", "bundleId"}

\* the compacted form was sent without a signature coming back, and the
\* legacy form sent after it was accepted
C36_Witness ==
    /\ InLog("send:compacted")
    /\ ~InLog("signature:compacted")
    /\ InLog("signature:legacy")
    /\ PositionInLog("send:compacted") < PositionInLog("send:legacy")

(***************************************************************************)
(* Properties of the hand-over from verification to execution, checked     *)
(* under Spec.                                                             *)
(***************************************************************************)
\* C29: the verified opportunities are sorted by descending verified gross
\* profit percentage, and a check hands only the first of them to
\* execution: it makes at most one trade attempt, and the record of that
\* attempt carries the profit of the first, which no other exceeds.
C29_SortedAndOnlyBestExecuted ==
    /\ \A i, j \in 1 .. Len(verOut) :
          i < j => DGE(verOut[i].profitPercentage, verOut[j].profitPercentage)
    /\ Cardinality({ i \in 1 .. Len(trace) : trace[i] = "accounts" }) <= 1
    /\ Len(trades) <= 1
    /\ (trades # <<>> /\ verOut # <<>>) =>
          /\ trades[1].expected_gross_profit = <<verOut[1].verifiedProfit>>
          /\ \A j \in 1 .. Len(verOut) :
                verOut[1].verifiedProfit >= verOut[j].verifiedProfit

\* two verified opportunities, the second of the scan with the higher
\* verified profit: it is sorted to the front and is the one traded
C29_Witness ==
    /\ Len(verOut) = 2
    /\ verOut[1].cycle = scanOut.list[2].cycle
    /\ verOut[1].verifiedProfit = 3000000
    /\ verOut[2].verifiedProfit = 2000000
    /\ Len(trades) = 1
    /\ trades[1].expected_gross_profit = <<3000000>>

(***************************************************************************)
(* Properties of verifyOpportunities called on its own, checked under      *)
(* SpecCall.                                                               *)
(***************************************************************************)
VerifierCalls == call # <<>> /\ call[1].fn = "verifyOpportunities"

\* the result entries equal to x, and the candidates among the first `top`
\* opportunities that x can be the verification of
SameEntries(x) == { j \in 1 .. Len(call[1].out) : call[1].out[j] = x }

SourcesOf(x, top) ==
    { k \in 1 .. top :
        /\ call[1].opportunities[k].cycle = x.cycle
        /\ call[1].answers[k][1] # <<>>
        /\ call[1].answers[k][2] # <<>>
        /\ x.verifiedAmounts = <<KAMINO_FLASHLOAN_AMOUNT,
                                 call[1].answers[k][1][1],
                                 call[1].answers[k][2][1]>> }

\* C27: verifyOpportunities asks quotes for the first three opportunities
\* only, candidate by candidate in input order; a fourth or later
\* opportunity is never quoted again and never appears in the result.
C27_OnlyTheFirstThree ==
    VerifierCalls =>
        LET requests == call[1].requests
            top == Min(3, Len(call[1].opportunities))
        IN  /\ \A a \in 1 .. Len(requests) : requests[a][1] <= 3
            /\ \A a, b \in 1 .. Len(requests) :
                  a < b => \/ requests[a][1] < requests[b][1]
                           \/ /\ requests[a][1] = requests[b][1]
                              /\ requests[a][2] < requests[b][2]
            /\ \A k \in 1 .. top : \E a \in 1 .. Len(requests) : requests[a] = <<k, 1>>
            /\ Len(call[1].out) <= 3
            /\ \A j \in 1 .. Len(call[1].out) :
                  Cardinality(SameEntries(call[1].out[j]))
                      <= Cardinality(SourcesOf(call[1].out[j], top))

\* four opportunities of which only the fourth would pass: three first-hop
\* requests are made and nothing is returned
C27_Witness ==
    /\ VerifierCalls
    /\ Len(call[1].opportunities) = 4
    /\ \A k \in 1 .. 3 : call[1].answers[k] = << <<>>, <<>> >>
    /\ call[1].answers[4] = << <<Dec(1, 6)>>, <<Dec(1002, 6)>> >>
    /\ call[1].requests = << <<1, 1>>, <<2, 1>>, <<3, 1>> >>
    /\ call[1].out = <<>>

(***************************************************************************)
(* Properties of the assembled instruction list, checked under SpecCall.   *)
(***************************************************************************)
InstructionNames(instructions) ==
    [i \in 1 .. Len(instructions) |-> instructions[i].name]

\* C24: on every path and whatever the routing service answers, the
\* arbitrage transaction consists of exactly six instructions in the order
\* priority fee, compute-unit limit, loan borrow, swap 1, swap 2, loan
\* repay, with no setup or cleanup instruction of the routing service.
C24_SixInstructionsInOrder ==
    /\ InstructionNames(ArbitrageInstructions)
          = <<"setComputeUnitPrice", "setComputeUnitLimit", "flashBorrow",
              "firstSwap", "secondSwap", "flashRepay">>
    /\ (call # <<>> /\ call[1].fn = "executeSimpleArbitrage") =>
          /\ Len(call[1].out) = 6
          /\ InstructionNames(call[1].out)
                = <<"setComputeUnitPrice", "setComputeUnitLimit",
                    "flashBorrow", "firstSwap", "secondSwap", "flashRepay">>
          /\ \A i \in 1 .. Len(call[1].out) :
                call[1].out[i].name \notin {"setup", "cleanup"}

\* a legacy transaction assembled although the routing service offered two
\* setup instructions and a cleanup instruction for each swap
C24_Witness ==
    /\ call # <<>>
    /\ call[1].fn = "executeSimpleArbitrage"
    /\ call[1].path = "legacy"
    /\ call[1].responses = << [setup |-> 2, cleanup |-> TRUE],
                              [setup |-> 2, cleanup |-> TRUE] >>
    /\ Len(call[1].out) = 6


\* the gross profit percentage the quotes of an execution promise
ExecutionProfitPercentage(c) ==
    GrossProfitPercentage(
        GrossProfit(ParseInt(c.swaps[2].outAmount), ParseInt(c.swaps[1].inAmount)),
        ParseInt(c.swaps[1].inAmount))

\* C35: whenever executeSimpleArbitrage submits a transaction or bundle,
\* the quotes it was built from (first hop at the loan amount, second hop at
\* the first hop's output, direct routes only) give a final amount whose
\* gross profit percentage is at least the profit threshold.
C35_SubmittedOnlyIfExecutionQuotesClear ==
    (call # <<>> /\ call[1].fn = "executeSimpleArbitrage" /\ call[1].submitted) =>
        /\ call[1].swaps[1].inAmount = KAMINO_FLASHLOAN_AMOUNT
        /\ call[1].swaps[2].inAmount = call[1].swaps[1].outAmount
        /\ call[1].swaps[1].onlyDirectRoutes
        /\ call[1].swaps[2].onlyDirectRoutes
        /\ DGE(ExecutionProfitPercentage(call[1]), VERIFY_MIN_PROFIT)


\* C37: createJitoTipTransaction ends whatever the ledger endpoint does: it
\* makes at most 3 latest-blockhash queries and returns null if none of
\* them gives a blockhash, whether the query fails or its response carries
\* no blockhash.
C37_TipTransactionEndsWithinThreeQueries ==
    (call # <<>> /\ call[1].fn = "createJitoTipTransaction") =>
        /\ call[1].out.result \in {"null", "transaction"}
        /\ call[1].out.queries <= 3
        /\ (\A i \in 1 .. 3 : call[1].answers[i] # "blockhash") =>
              call[1].out.result = "null"


\* the attempts of a call of ensureTokenAccount that do not end it
Unsettled(outcome) == outcome \in {"fails", "throws"}

\* C38: for a valid mint ensureTokenAccount returns after at most 3
\* attempts, whatever the lookups, the creation and its confirmation do, and
\* exists, created or assumedValid is true in what it returns; so
\* executeMultiHopArbitrage never gives up a trade over a token account.
C38_TokenAccountAlwaysUsable ==
    (call # <<>> /\ call[1].fn = "ensureTokenAccount") =>
        LET c == call[1]
        IN  /\ c.out.attempts \in 1 .. 3
            /\ c.out.exists \/ c.out.created \/ c.out.assumedValid
            /\ c.allAccountsValid
            /\ \A i \in 1 .. c.out.attempts - 1 : Unsettled(c.outcomes[i])
            /\ c.out.assumedValid <=>
                  \A i \in 1 .. 3 : Unsettled(c.outcomes[i])
            /\ c.out.created <=>
                  c.outcomes[c.out.attempts] = "confirmed"
            /\ c.out.exists <=>
                  c.outcomes[c.out.attempts]
                     \in {"found", "alreadyExists", "foundAfter"}

\* three attempts failed, the last by an exception, and the account is
\* assumed valid
C38_Witness ==
    /\ call # <<>>
    /\ call[1].fn = "ensureTokenAccount"
    /\ call[1].outcomes[1] = "fails"
    /\ call[1].outcomes[2] = "fails"
    /\ call[1].outcomes[3] = "throws"
    /\ call[1].out = [exists |-> FALSE, created |-> FALSE,
                      assumedValid |-> TRUE, attempts |-> 3]
    /\ call[1].allAccountsValid


\* C40: for every byte sequence b, also one with leading zero bytes or of
\* zero bytes only, base58Decode(base58Encode(b)) equals b.
C40_Base58RoundTrip ==
    (call # <<>> /\ call[1].fn = "base58Encode") =>
        call[1].decoded = call[1].buffer

====
